---- MODULE Spec2Model ----
(***************************************************************************)
(* A model of dominikh/go-color: the color space tree and its conversion   *)
(* routing (ColorSpace.Convert, Color.Convert), the CSS gamut mapping      *)
(* search (GamutMapCSS), gradient interpolation (Step) and the color space *)
(* registry (RegisterColorSpace / LookupColorSpace).                       *)
(*                                                                         *)
(* Numbers.  float64 coordinates are held as integers on a fixed grid.     *)
(* Conversion and Step count in units of 1/Grid (One is 1.0), Grid being a *)
(* multiple of every step count so that interpolation is exact.  Gamut     *)
(* mapping counts in units of 0.000025 (GamutOne is 1.0), so that the      *)
(* three tolerances of the code are whole numbers: InGamut's 0.000075 is 3 *)
(* units, GamutMapCSS's 0.0001 is 4 units and its just noticeable          *)
(* difference 0.02 is 800 units.                                           *)
(*                                                                         *)
(* Transfer functions.  ToBase and FromBase are function-valued fields of  *)
(* a color space; the routing code never looks inside them.  They are      *)
(* modelled as bijections of integer triples that do not commute with one  *)
(* another, FromBase being the exact inverse of ToBase, so that the order  *)
(* and the choice of the functions a conversion applies shows in its       *)
(* result.                                                                 *)
(***************************************************************************)
EXTENDS Integers, Sequences, FiniteSets, TLC

VARIABLES
    \* --- conversion engine (ColorSpace.Convert, Color.Convert)
    cpc,        \* position of the conversion scenario
    api,        \* which entry point converts: "Color" or "ColorSpace"
    spA, spB, spC,  \* the three color spaces of the scenario
    colIn,      \* the color that is converted (Values, Space, Alpha)
    rAB, rBC, rAC   \* outcomes of Convert A->B, B->C (of A->B's result), A->C

VARIABLES
    \* --- registry (RegisterColorSpace, LookupColorSpace)
    colorSpaces,    \* the map from id to color space
    prevSpaces,     \* colorSpaces as it was before the last call
    lastOp,         \* the last call: "none", "Register" or "Lookup"
    lastArg,        \* its argument: a color space, or an id to look up
    lastFound       \* what the last lookup returned: <<cs, ok>>

VARIABLES
    \* --- Step
    stPc,           \* "idle", "loop" (inside the iterator) or "done"
    stC1, stC2,     \* the two colors
    stIn, stOut,    \* the interpolation space and the output space
    stNum,          \* the number of colors asked for
    stI,            \* the loop variable i
    stC1in, stC2in, \* c1in and c2in
    stYielded,      \* the colors yielded so far, in order
    stStopped       \* the consumer's yield returned false

VARIABLES
    \* --- GamutMapCSS
    gPc,            \* "idle", "test" (at the loop condition), "body" or "done"
    gC, gTo,        \* the color to map and the destination space
    gPlain,         \* c.Convert(to)
    gCurrent,       \* current
    gCurDest,       \* the coordinates current converts to in the destination
    gClipped,       \* clipped
    gE,             \* e
    gMin, gMax,     \* min and max
    gMinInGamut,    \* minInGamut
    gResult,        \* the color returned
    gRet            \* the return statement that returned it

VARIABLES
    \* --- concurrent callers of RegisterColorSpace and LookupColorSpace
    mu,             \* colorSpacesMu
    tPc,            \* where each goroutine is in its call
    tArg,           \* the argument of its call
    tCs,            \* cs of the registerColorSpace call it is in
    tFound,         \* what its last lookup returned
    committed,      \* colorSpaces as the last finished registration left it
    tOverlap        \* two lookups have held the read lock at one time

VARIABLES
    \* --- calls of ColorSpace.Init and of ColorSpace.Convert on the nodes a
    \*     program has built
    path,           \* cs.path of every node
    iPc,            \* where the call of Init is
    iOrig,          \* orig
    iCs,            \* cs, the node the loop is at
    iOut,           \* out
    cvA, cvB,       \* receiver and argument of the last ColorSpace.Convert
    cvRes           \* what that call did

VARIABLES
    \* --- calls of Parse and of Color.String
    pParts,         \* the parts the literal was put together from
    pIn,            \* s, the string given to Parse
    pPc,            \* whether Parse and String have been called
    pRes,           \* what Parse did and returned
    pStr            \* the String() of the color returned

VARIABLES
    \* --- calls of ColorSpace.InGamut, Color.InGamut and Color.InGamutOf
    qOp,            \* the method last called
    qC,             \* its color (space and values)
    qTo,            \* the space given to InGamutOf
    qRes            \* what it returned

convVars == <<cpc, api, spA, spB, spC, colIn, rAB, rBC, rAC>>

stepVars == <<stPc, stC1, stC2, stIn, stOut, stNum, stI, stC1in, stC2in,
              stYielded, stStopped>>

regVars == <<colorSpaces, prevSpaces, lastOp, lastArg, lastFound>>

gamutVars == <<gPc, gC, gTo, gPlain, gCurrent, gCurDest, gClipped, gE, gMin,
               gMax, gMinInGamut, gResult, gRet>>

lockVars == <<mu, tPc, tArg, tCs, tFound, committed, tOverlap>>

initVars == <<path, iPc, iOrig, iCs, iOut, cvA, cvB, cvRes>>

parseVars == <<pParts, pIn, pPc, pRes, pStr>>

queryVars == <<qOp, qC, qTo, qRes>>

vars == <<convVars, regVars, stepVars, gamutVars, lockVars, initVars, parseVars,
          queryVars>>

\* What an operation of one part leaves alone: the variables of the others.
notConv ==
    <<regVars, stepVars, gamutVars, lockVars, initVars, parseVars, queryVars>>
notReg ==
    <<convVars, stepVars, gamutVars, lockVars, initVars, parseVars, queryVars>>
notStep ==
    <<convVars, regVars, gamutVars, lockVars, initVars, parseVars, queryVars>>
notGamut ==
    <<convVars, regVars, stepVars, lockVars, initVars, parseVars, queryVars>>
notQuery ==
    <<convVars, regVars, stepVars, gamutVars, lockVars, initVars, parseVars>>
notParse ==
    <<convVars, regVars, stepVars, gamutVars, lockVars, initVars, queryVars>>
notInit ==
    <<convVars, regVars, stepVars, gamutVars, lockVars, parseVars, queryVars>>
\* The goroutines share colorSpaces; the bookkeeping of the sequential
\* registry calls is not theirs.
notLock == <<convVars, stepVars, gamutVars, initVars, parseVars, queryVars, prevSpaces,
             lastOp, lastArg, lastFound>>

----------------------------------------------------------------------------
(* Bounds of the model *)

\* Largest number of colors a Step call is asked for.
MaxNum == 4

\* Largest chroma of a color that is gamut mapped, in units of 0.000025.
MaxChroma == 32

----------------------------------------------------------------------------
(* The color spaces of the package and their tree *)

Nil == "nil"

PackageSpaces ==
    {"XYZ_D65", "XYZ_D50", "LinearDisplayP3", "DisplayP3", "LinearSRGB", "SRGB",
     "Oklab", "Oklch", "Lab", "LCh", "LinearProPhoto", "ProPhoto"}

\* ColorSpace.Base of every color space of the package.
PackageBase ==
    [n \in PackageSpaces |->
        CASE n = "XYZ_D65"         -> Nil
          [] n = "XYZ_D50"         -> "XYZ_D65"
          [] n = "LinearDisplayP3" -> "XYZ_D65"
          [] n = "DisplayP3"       -> "LinearDisplayP3"
          [] n = "LinearSRGB"      -> "XYZ_D65"
          [] n = "SRGB"            -> "LinearSRGB"
          [] n = "Oklab"           -> "XYZ_D65"
          [] n = "Oklch"           -> "Oklab"
          [] n = "Lab"             -> "XYZ_D50"
          [] n = "LCh"             -> "Lab"
          [] n = "LinearProPhoto"  -> "XYZ_D50"
          [] n = "ProPhoto"        -> "LinearProPhoto"]

\* ColorSpace.ID of every color space of the package.
PackageID ==
    [n \in PackageSpaces |->
        CASE n = "XYZ_D65"         -> "xyz-d65"
          [] n = "XYZ_D50"         -> "xyz-d50"
          [] n = "LinearDisplayP3" -> "display-p3-linear"
          [] n = "DisplayP3"       -> "display-p3"
          [] n = "LinearSRGB"      -> "srgb-linear"
          [] n = "SRGB"            -> "srgb"
          [] n = "Oklab"           -> "oklab"
          [] n = "Oklch"           -> "oklch"
          [] n = "Lab"             -> "lab"
          [] n = "LCh"             -> "lch"
          [] n = "LinearProPhoto"  -> "prophoto-rgb-linear"
          [] n = "ProPhoto"        -> "prophoto-rgb"]

\* Color spaces a user of the package builds with &ColorSpace{...}: a space on
\* top of sRGB, a space that reuses the id "srgb" on top of a space "q", a
\* space on top of that one, and a space without a base with a space on it.
\* Two more share the id "a", one based on the other.
UserSpaces == {"U_Rgb", "U_Q", "U_Srgb2", "U_Y", "U_Root", "U_Z", "U_A1", "U_A2"}

UserBase ==
    [n \in UserSpaces |->
        CASE n = "U_Rgb"   -> "SRGB"
          [] n = "U_Q"     -> "XYZ_D65"
          [] n = "U_Srgb2" -> "U_Q"
          [] n = "U_Y"     -> "U_Srgb2"
          [] n = "U_Root"  -> Nil
          [] n = "U_Z"     -> "U_Root"
          [] n = "U_A1"    -> "U_A2"
          [] n = "U_A2"    -> "U_Q"]

UserID ==
    [n \in UserSpaces |->
        CASE n = "U_Rgb"   -> "my-rgb"
          [] n = "U_Q"     -> "q"
          [] n = "U_Srgb2" -> "srgb"
          [] n = "U_Y"     -> "y"
          [] n = "U_Root"  -> "root2"
          [] n = "U_Z"     -> "z"
          [] n = "U_A1"    -> "a"
          [] n = "U_A2"    -> "a"]

Spaces == PackageSpaces \cup UserSpaces

\* cs.Base and cs.ID
Base(n) == IF n \in PackageSpaces THEN PackageBase[n] ELSE UserBase[n]

ID(n) == IF n \in PackageSpaces THEN PackageID[n] ELSE UserID[n]

\* slices.Reverse
Reverse(s) == [i \in 1..Len(s) |-> s[Len(s) + 1 - i]]

\* The loop of ColorSpace.Init that collects cs, cs.Base, ... up to the space
\* without a base.
RECURSIVE BaseChain(_)
BaseChain(cs) == IF cs = Nil THEN <<>> ELSE <<cs>> \o BaseChain(Base(cs))

\* cs.path as ColorSpace.Init records it: the base chain reversed.
Path(cs) == Reverse(BaseChain(cs))

----------------------------------------------------------------------------
(* Transfer functions *)

\* Which function a space's ToBase field holds.  DisplayP3 is given
\* SRGB.ToBase and SRGB.FromBase, and Oklch is given LCh.ToBase; its FromBase,
\* labToLCH, is the inverse of that function as well.
Transfer(n) ==
    CASE n = "XYZ_D50"         -> 1
      [] n = "LinearDisplayP3" -> 2
      [] n = "DisplayP3"       -> 3
      [] n = "SRGB"            -> 3
      [] n = "LinearSRGB"      -> 4
      [] n = "Oklab"           -> 5
      [] n = "Oklch"           -> 6
      [] n = "LCh"             -> 6
      [] n = "Lab"             -> 7
      [] n = "LinearProPhoto"  -> 8
      [] n = "ProPhoto"        -> 9
      [] OTHER                 -> 10

\* Every coordinate of the model is a multiple of Grid, which every step
\* count up to MaxNum + 1 divides: interpolation stays on the grid.
RECURSIVE Factorial(_)
Factorial(n) == IF n <= 1 THEN 1 ELSE n * Factorial(n - 1)

Grid == Factorial(MaxNum + 1)

\* cs.ToBase(&c)
ToBase(n, c) == <<c[2] + Grid * Transfer(n), c[3], c[1]>>

\* cs.FromBase(&c)
FromBase(n, c) == <<c[3], c[1] - Grid * Transfer(n), c[2]>>

----------------------------------------------------------------------------
(* ColorSpace.Convert and Color.Convert *)

Min(a, b) == IF a < b THEN a ELSE b

\* The connection space loop of ColorSpace.Convert.  Indices are those of the
\* code plus one (TLA+ sequences start at 1), so "no connection space" is 0
\* where the code has -1.
RECURSIVE ConnLoop(_, _, _, _)
ConnLoop(ourPath, theirPath, i, connIdx) ==
    IF i > Min(Len(ourPath), Len(theirPath)) THEN connIdx
    ELSE IF ourPath[i] = theirPath[i]
         THEN ConnLoop(ourPath, theirPath, i + 1, i)
         ELSE connIdx

\* ConnIdx with the loop ranging over one index too few.
ConnIdx_ShortRange(ourPath, theirPath) ==
    LET k == ConnLoop(ourPath, theirPath, 1, 0)
    IN  IF k > 0 /\ k = Min(Len(ourPath), Len(theirPath)) THEN k - 1 ELSE k

ConnIdx(ourPath, theirPath) == ConnLoop(ourPath, theirPath, 1, 0)

\* UpWalk with the loop test i >= connIdx: the connection space itself is
\* converted to its base too.
RECURSIVE UpWalk_IntoAncestor(_, _, _, _)
UpWalk_IntoAncestor(ourPath, i, connIdx, st) ==
    IF i >= connIdx /\ i >= 1
    THEN UpWalk_IntoAncestor(ourPath, i - 1, connIdx,
                [coords |-> ToBase(ourPath[i], st.coords),
                 calls  |-> Append(st.calls, <<"ToBase", ourPath[i]>>)])
    ELSE st

\* "Convert from our space to the connection space".  st carries the
\* coordinates and the transfer functions called so far.
RECURSIVE UpWalk(_, _, _, _)
UpWalk(ourPath, i, connIdx, st) ==
    IF i > connIdx
    THEN UpWalk(ourPath, i - 1, connIdx,
                [coords |-> ToBase(ourPath[i], st.coords),
                 calls  |-> Append(st.calls, <<"ToBase", ourPath[i]>>)])
    ELSE st

\* DownWalk starting one space too low: the space just below the connection
\* space is skipped.
DownWalk_SkipFirst(theirPath, i, st) ==
    LET RECURSIVE Walk(_, _)
        Walk(j, t) ==
            IF j <= Len(theirPath)
            THEN Walk(j + 1, [coords |-> FromBase(theirPath[j], t.coords),
                              calls  |-> Append(t.calls, <<"FromBase", theirPath[j]>>)])
            ELSE t
    IN  Walk(i + 1, st)

\* "Convert from connection space to destination space".
RECURSIVE DownWalk(_, _, _)
DownWalk(theirPath, i, st) ==
    IF i <= Len(theirPath)
    THEN DownWalk(theirPath, i + 1,
                  [coords |-> FromBase(theirPath[i], st.coords),
                   calls  |-> Append(st.calls, <<"FromBase", theirPath[i]>>)])
    ELSE st

\* ConvertPaths with the test connIdx <= 0: a connection space that is the
\* root counts as none.
ConvertPaths_PanicAtRoot(ourPath, theirPath, coords) ==
    LET connIdx == ConnIdx(ourPath, theirPath)
        up      == UpWalk(ourPath, Len(ourPath), connIdx,
                          [coords |-> coords, calls |-> <<>>])
        down    == DownWalk(theirPath, connIdx + 1, up)
    IN  IF connIdx <= 1
        THEN [panic |-> TRUE, coords |-> coords, calls |-> <<>>]
        ELSE [panic |-> FALSE, coords |-> down.coords, calls |-> down.calls]

\* cs.Convert(to, coords), given the two cached paths: whether it panics, the
\* coordinates it returns and the ToBase/FromBase calls it made, in order.
ConvertPaths(ourPath, theirPath, coords) ==
    LET connIdx == ConnIdx(ourPath, theirPath)
        up      == UpWalk(ourPath, Len(ourPath), connIdx,
                          [coords |-> coords, calls |-> <<>>])
        down    == DownWalk(theirPath, connIdx + 1, up)
    IN  IF connIdx = 0
        THEN [panic |-> TRUE, coords |-> coords, calls |-> <<>>]
        ELSE [panic |-> FALSE, coords |-> down.coords, calls |-> down.calls]

SpaceConvertRun(cs, to, coords) == ConvertPaths(Path(cs), Path(to), coords)

\* Color.Convert: the same-space return, else ColorSpace.Convert with the
\* alpha carried over.
ColorConvertRun(c, space) ==
    IF c.Space = space
    THEN [panic |-> FALSE, color |-> c, calls |-> <<>>]
    ELSE LET r == SpaceConvertRun(c.Space, space, c.Values)
         IN  [panic |-> r.panic,
              color |-> [Values |-> r.coords, Space |-> space, Alpha |-> c.Alpha],
              calls |-> r.calls]

ColorConvert(c, space) == ColorConvertRun(c, space).color

----------------------------------------------------------------------------
(* The conversion scenario: a color in space A is converted to B, the result
   is converted on to C, and the color is converted from A to C directly. *)

\* Fixed point 1.0
One == Grid

\* The coordinates and alpha of the colors that are converted.
ConvInputs ==
    {[Values |-> <<One, 0, 2 * One>>, Alpha |-> One],
     [Values |-> <<0 - One, 3 * One, One>>, Alpha |-> 0]}

\* The spaces conversions run between: those of the package, a user's space
\* on top of sRGB, and a user's space without a base.
ConvSpaces == PackageSpaces \cup {"U_Rgb", "U_Root"}

NoRun == [panic |-> FALSE, coords |-> <<0, 0, 0>>, calls |-> <<>>]

NoColor == [Values |-> <<0, 0, 0>>, Space |-> Nil, Alpha |-> 0]

\* One conversion of color c to space `to` through the entry point ap.
RunConvert(ap, c, to) ==
    IF ap = "Color"
    THEN LET r == ColorConvertRun(c, to)
         IN  [panic |-> r.panic, coords |-> r.color.Values, calls |-> r.calls]
    ELSE SpaceConvertRun(c.Space, to, c.Values)

ConvInit ==
    /\ cpc = "idle"
    /\ api = "Color"
    /\ spA = Nil /\ spB = Nil /\ spC = Nil
    /\ colIn = NoColor
    /\ rAB = NoRun /\ rBC = NoRun /\ rAC = NoRun

\* c.Convert(b) or a.Convert(b, c.Values) on a color of space a
ConvertAB(a, b, in, ap) ==
    /\ cpc = "idle"
    /\ api' = ap
    /\ spA' = a /\ spB' = b
    /\ colIn' = [Values |-> in.Values, Space |-> a, Alpha |-> in.Alpha]
    /\ rAB' = RunConvert(ap, colIn', b)
    /\ cpc' = IF rAB'.panic THEN "panic" ELSE "ab"
    /\ UNCHANGED <<spC, rBC, rAC>>
    /\ UNCHANGED notConv

\* the result of the first conversion is converted to c
ConvertBC(c) ==
    /\ cpc = "ab"
    /\ spC' = c
    /\ rBC' = RunConvert(api, [Values |-> rAB.coords, Space |-> spB,
                               Alpha |-> colIn.Alpha], c)
    /\ cpc' = IF rBC'.panic THEN "panic" ELSE "abc"
    /\ UNCHANGED <<api, spA, spB, colIn, rAB, rAC>>
    /\ UNCHANGED notConv

\* the original color is converted to c directly
ConvertAC ==
    /\ cpc = "abc"
    /\ rAC' = RunConvert(api, colIn, spC)
    /\ cpc' = IF rAC'.panic THEN "panic" ELSE "done"
    /\ UNCHANGED <<api, spA, spB, spC, colIn, rAB, rBC>>
    /\ UNCHANGED notConv

----------------------------------------------------------------------------
(* Make, lerp and Step *)

\* Make(space, p1, p2, p3, alpha): alpha is clamped to [0, 1].
Make(space, p1, p2, p3, alpha) ==
    [Values |-> <<p1, p2, p3>>,
     Space  |-> space,
     Alpha  |-> IF alpha < 0 THEN 0 ELSE IF alpha > One THEN One ELSE alpha]

\* t := float64(i+1) / float64(num), a fraction k/n held as the pair <<k, n>>
StepFraction(i, num) == <<i + 1, num>>

\* lerp(x, y, a) = x*(1.0-a) + y*a, for a the fraction a[1]/a[2].  Coordinates
\* are multiples of Grid, so the division is exact.
lerp(x, y, a) == (x * (a[2] - a[1]) + y * a[1]) \div a[2]

\* The color Step yields for loop index i.
StepColor(c1in, c2in, in, out, i, num) ==
    LET t == StepFraction(i, num)
        c == Make(in,
                  lerp(c1in.Values[1], c2in.Values[1], t),
                  lerp(c1in.Values[2], c2in.Values[2], t),
                  lerp(c1in.Values[3], c2in.Values[3], t),
                  lerp(c1in.Alpha, c2in.Alpha, t))
    IN  ColorConvert(c, out)

\* The colors Step is called with.
StepColors ==
    {[Values |-> <<0, 0, 0>>, Space |-> "LinearSRGB", Alpha |-> One],
     [Values |-> <<One, 0, 0>>, Space |-> "LinearSRGB", Alpha |-> One],
     [Values |-> <<One, 2 * One, 0>>, Space |-> "Oklch", Alpha |-> 0]}

StepSpaces == {"LinearSRGB", "SRGB", "Oklch"}

StepInit ==
    /\ stPc = "idle"
    /\ stC1 = NoColor /\ stC2 = NoColor
    /\ stIn = Nil /\ stOut = Nil
    /\ stNum = 0 /\ stI = 0
    /\ stC1in = NoColor /\ stC2in = NoColor
    /\ stYielded = <<>>
    /\ stStopped = FALSE

\* Step(c1, c2, in, out, num) is called and its iterator is started.
StepStart(c1, c2, in, out, num) ==
    /\ stPc = "idle"
    /\ stC1' = c1 /\ stC2' = c2 /\ stIn' = in /\ stOut' = out /\ stNum' = num
    /\ stC1in' = ColorConvert(c1, in)
    /\ stC2in' = ColorConvert(c2, in)
    /\ stI' = 0
    /\ stPc' = "loop"
    /\ UNCHANGED <<stYielded, stStopped>>
    /\ UNCHANGED notStep

\* One iteration of the loop: the color for i is yielded, and the consumer
\* answers whether it wants more.
StepYield(more) ==
    /\ stPc = "loop" /\ stI < stNum
    /\ stYielded' = Append(stYielded,
                           StepColor(stC1in, stC2in, stIn, stOut, stI, stNum))
    /\ IF more
       THEN stI' = stI + 1 /\ UNCHANGED <<stPc, stStopped>>
       ELSE stPc' = "done" /\ stStopped' = TRUE /\ UNCHANGED stI
    /\ UNCHANGED <<stC1, stC2, stIn, stOut, stNum, stC1in, stC2in>>
    /\ UNCHANGED notStep

\* The loop ends.
StepEnd ==
    /\ stPc = "loop" /\ stI >= stNum
    /\ stPc' = "done"
    /\ UNCHANGED <<stC1, stC2, stIn, stOut, stNum, stI, stC1in, stC2in,
                   stYielded, stStopped>>
    /\ UNCHANGED notStep

----------------------------------------------------------------------------
(* Coordinates, ColorSpace.InGamut and Color.InGamut *)

\* 1.0, in units of 0.000025
GamutOne == 40000

\* const ϵ = 0.000075 of InGamut
InGamutEps == 3

\* infty: the range [-Inf, +Inf]
infty == [unbounded |-> TRUE, lo |-> 0, hi |-> 0]

\* [2]float64{lo, hi}
Range(lo, hi) == [unbounded |-> FALSE, lo |-> lo, hi |-> hi]

RGBCoordinates ==
    [i \in 1..3 |-> [Range |-> Range(0, GamutOne), IsAngle |-> FALSE]]

\* cs.Coords once Init has run: a space that sets no coordinates has those of
\* its base.  The user's space on top of sRGB declares the range [0, 0.5] for
\* its three coordinates; a user's space of hue, saturation and value declares
\* [0, 360] for its hue, an angle.
RECURSIVE Coords(_)
Coords(n) ==
    CASE n \in {"XYZ_D65", "Oklab", "Lab"} ->
             [i \in 1..3 |-> [Range |-> infty, IsAngle |-> FALSE]]
      [] n \in {"Oklch", "LCh"} ->
             [i \in 1..3 |-> [Range |-> infty, IsAngle |-> (i = 3)]]
      [] n \in {"LinearDisplayP3", "LinearSRGB", "LinearProPhoto", "ProPhoto",
                "U_Root"} ->
             RGBCoordinates
      [] n = "U_Rgb" ->
             [i \in 1..3 |-> [Range |-> Range(0, GamutOne \div 2),
                              IsAngle |-> FALSE]]
      [] n = "U_Hsv" ->
             [i \in 1..3 |-> [Range |-> IF i = 1 THEN Range(0, 360 * GamutOne)
                                        ELSE Range(0, GamutOne),
                              IsAngle |-> (i = 1)]]
      [] OTHER -> Coords(Base(n))

\* InGamut with the test of IsAngle left out.
InGamut_AnglesToo(cs, values) ==
    \A i \in 1..3 :
        LET meta == Coords(cs)[i]
        IN  \/ meta.Range.unbounded
            \/ /\ values[i] >= meta.Range.lo - InGamutEps
               /\ values[i] <= meta.Range.hi + InGamutEps

\* cs.InGamut(values)
InGamut(cs, values) ==
    \A i \in 1..3 :
        LET meta == Coords(cs)[i]
        IN  ~meta.IsAngle =>
                \/ meta.Range.unbounded
                \/ /\ values[i] >= meta.Range.lo - InGamutEps
                   /\ values[i] <= meta.Range.hi + InGamutEps

\* c.InGamut()
ColorInGamut(c) == InGamut(c.Space, c.Values)

\* c.InGamutOf(space)
InGamutOf(c, space) == ColorInGamut(ColorConvert(c, space))

\* The coordinates the gamut methods are asked about: around both ends of
\* the ranges [0, 1] and [0, 0.5], and an angle of 400 degrees.
QueryValues ==
    {0 - InGamutEps - 1, 0 - InGamutEps, GamutOne \div 4,
     GamutOne \div 2 + InGamutEps, GamutOne \div 2 + InGamutEps + 1,
     GamutOne + InGamutEps, GamutOne + InGamutEps + 1, 400 * GamutOne}

\* The spaces they are asked about; InGamutOf converts between those of the
\* tree.
QuerySpaces == {"XYZ_D65", "LinearSRGB", "SRGB", "U_Rgb", "Oklch", "U_Hsv"}

QueryTreeSpaces == QuerySpaces \ {"U_Hsv"}

QueryInit ==
    /\ qOp = "none"
    /\ qC = NoColor
    /\ qTo = Nil
    /\ qRes = FALSE

\* cs.InGamut(values)
SpaceInGamutCall(cs, values) ==
    /\ qOp = "none"
    /\ qOp' = "ColorSpace.InGamut"
    /\ qC' = [Values |-> values, Space |-> cs, Alpha |-> 0]
    /\ qTo' = Nil
    /\ qRes' = InGamut(cs, values)
    /\ UNCHANGED notQuery

\* c.InGamut()
ColorInGamutCall(c) ==
    /\ qOp = "none"
    /\ qOp' = "Color.InGamut"
    /\ qC' = c
    /\ qTo' = Nil
    /\ qRes' = ColorInGamut(c)
    /\ UNCHANGED notQuery

\* c.InGamutOf(space)
InGamutOfCall(c, space) ==
    /\ qOp = "none"
    /\ qOp' = "Color.InGamutOf"
    /\ qC' = c
    /\ qTo' = space
    /\ qRes' = InGamutOf(c, space)
    /\ UNCHANGED notQuery

----------------------------------------------------------------------------
(* GamutMapCSS *)

\* const jnd = 0.02
jnd == 800

\* const ϵ = 0.0001 of GamutMapCSS
GamutMapEps == 4

clamp(f, low, high) == IF f < low THEN low ELSE IF f > high THEN high ELSE f

\* clamp against a range: nothing is below -Inf or above +Inf
ClampRange(f, r) == IF r.unbounded THEN f ELSE clamp(f, r.lo, r.hi)

\* clip, from the color ccc that cc.Convert(to) returned
clip(ccc) ==
    [ccc EXCEPT !.Values = <<ClampRange(ccc.Values[1], Coords(ccc.Space)[1].Range),
                             ClampRange(ccc.Values[2], Coords(ccc.Space)[2].Range),
                             ClampRange(ccc.Values[3], Coords(ccc.Space)[3].Range)>>]

\* Step 1 of GamutMapCSS: the destination has no gamut limits.
NoGamutLimits(to) == \A i \in 1..3 : Coords(to)[i].Range = infty

\* What a color with chroma converts to in the destination depends on the
\* transfer functions between Oklch and the destination: the coordinates are
\* drawn from these triples, which lie well inside [0, 1], inside by InGamut's
\* tolerance only, above, below, and at 1.  One color converts to the same
\* coordinates every time it is converted.
DestTriples ==
    LET q == GamutOne \div 4
    IN  {<<q, q, q>>,
         <<GamutOne + InGamutEps, q, 0 - InGamutEps>>,
         <<GamutOne + InGamutEps + 1, q, q>>,
         <<q, 0 - InGamutEps - 1, q>>,
         <<GamutOne, GamutOne, GamutOne>>}

\* What the gray Oklab color (l, 0, 0) converts to in sRGB and in the user's
\* space on top of it, for l at 0, at 1 and one unit above 1: the three
\* coordinates are 1.055 * l^1.25 - 0.055 where that is above 0.0031308, which
\* is 0 at 0, 1 at 1 and 1.000033 at 1.000025.
ConvertGray(l) == <<l, l, l>>

\* How far the float64 coordinates that the gray Oklab color (l, 0, 0) has in
\* sRGB lie from ConvertGray(l), in units of 2^-53.  For l = 1, mulVecMat
\* with oklabLabToLms gives (1, 1, 1), the cubes are (1, 1, 1), mulVecMat with
\* oklabLmsToXyz gives the rounded row sums of that matrix, mulVecMat with the
\* FromBase matrix of LinearSRGB gives (1.0000000000000009,
\* 0.9999999999999996, 0.9999999999999998), and SRGB.FromBase gives
\* (1.0000000000000004, 0.9999999999999997, 0.9999999999999997).  For l = 0
\* every product is 0.
ConvertGrayUlps(l) == IF l = 0 THEN <<0, 0, 0>> ELSE <<4, 0 - 3, 0 - 3>>

\* The coordinates color c can convert to in the destination.
PlainChoices(c, to) ==
    IF c.Values[2] = 0 /\ ~NoGamutLimits(to)
    THEN {ConvertGray(c.Values[1])}
    ELSE DestTriples

\* What DeltaEOK(&clipped, &current) can return: under jnd by ϵ or more, under
\* jnd by less than ϵ, and not under jnd.
DeltaValues == {jnd - GamutMapEps, jnd - 1, jnd}

\* Color{Values: [3]float64{p1, p2, p3}, Space: space, Alpha: alpha}, a color
\* that is not made by Make
ColorLiteral(space, p1, p2, p3, alpha) ==
    [Values |-> <<p1, p2, p3>>, Space |-> space, Alpha |-> alpha]

\* The colors that are mapped, given in Oklch: colors of lightness 0.5 with
\* chroma, and grays of lightness 0, 1 and 1.000025, with alpha 1; a color
\* and two grays with alpha 0.5, and the same with alpha 2, which a color
\* literal can have.
GamutInputs ==
    {Make("Oklch", GamutOne \div 2, ch, 120 * GamutOne, One) :
        ch \in {GamutMapEps, MaxChroma \div 2, MaxChroma}}
    \cup {Make("Oklch", l, 0, 0, One) : l \in {0, GamutOne, GamutOne + 1}}
    \cup {ColorLiteral("Oklch", GamutOne \div 2, GamutMapEps, 120 * GamutOne, al) :
             al \in {One \div 2, 2 * One}}
    \cup {ColorLiteral("Oklch", l, 0, 0, al) :
             l \in {0, GamutOne}, al \in {One \div 2, 2 * One}}

\* The destinations: sRGB, Oklab (no gamut limits) and the user's space on top
\* of sRGB.
GamutDests == {"SRGB", "Oklab", "U_Rgb"}

\* The local variables of GamutMapCSS before the call.
NoLocals ==
    [pc |-> "idle", current |-> NoColor, curDest |-> <<0, 0, 0>>,
     clipped |-> NoColor, e |-> 0, min |-> 0, max |-> 0, minInGamut |-> TRUE,
     result |-> NoColor, ret |-> "none"]

Returned(s, result, ret) ==
    [s EXCEPT !.pc = "done", !.result = result, !.ret = ret]

\* GamutMapCSS from its entry to the loop statement.  plain is what c converts
\* to in the destination, e what DeltaEOK returns.
BeforeLoop(c, to, plain, e) ==
    LET cOklch  == ColorConvert(c, "Oklch")
        out     == [Values |-> plain, Space |-> to, Alpha |-> c.Alpha]
        clipped == clip(out)
        s       == [NoLocals EXCEPT !.current = cOklch, !.curDest = plain,
                                    !.clipped = clipped, !.e = e]
    IN  IF NoGamutLimits(to)
        THEN Returned(NoLocals, out, "unbounded")
        ELSE IF cOklch.Values[1] >= GamutOne
        THEN Returned(NoLocals,
                      [Make("Oklab", GamutOne, 0, 0, c.Alpha)
                          EXCEPT !.Values = ConvertGray(GamutOne), !.Space = to],
                      "white")
        ELSE IF cOklch.Values[1] <= 0
        THEN Returned(NoLocals,
                      [Make("Oklab", 0, 0, 0, c.Alpha)
                          EXCEPT !.Values = ConvertGray(0), !.Space = to],
                      "black")
        ELSE IF ColorInGamut(out)
        THEN Returned(NoLocals, out, "in gamut")
        ELSE IF e < jnd
        THEN Returned(s, clipped, "clipped before loop")
        ELSE [s EXCEPT !.pc = "test", !.min = 0, !.max = cOklch.Values[2],
                       !.minInGamut = TRUE]

\* One run of the loop body.  dest is what current converts to in the
\* destination unless current is the color converted last, e what DeltaEOK
\* returns.  The midpoint of the grid is rounded down.
LoopBody(s, to, dest, e) ==
    LET chroma  == (s.min + s.max) \div 2
        current == [s.current EXCEPT !.Values[2] = chroma]
        d       == IF chroma = s.current.Values[2] THEN s.curDest ELSE dest
        cc      == [Values |-> d, Space |-> to, Alpha |-> current.Alpha]
        inGamut == ColorInGamut(cc)
        s1      == [s EXCEPT !.current = current, !.curDest = d, !.pc = "test"]
    IN  IF s.minInGamut /\ inGamut
        THEN [s1 EXCEPT !.min = chroma]
        ELSE IF ~inGamut
        THEN LET clipped == clip(cc)
                 s2      == [s1 EXCEPT !.clipped = clipped, !.e = e]
             IN  IF e < jnd
                 THEN IF jnd - e < GamutMapEps
                      THEN Returned(s2, clipped, "clipped in loop")
                      ELSE [s2 EXCEPT !.minInGamut = FALSE, !.min = chroma]
                 ELSE [s2 EXCEPT !.max = chroma]
        ELSE s1

Locals ==
    [pc |-> gPc, current |-> gCurrent, curDest |-> gCurDest,
     clipped |-> gClipped, e |-> gE, min |-> gMin, max |-> gMax,
     minInGamut |-> gMinInGamut, result |-> gResult, ret |-> gRet]

SetLocals(s) ==
    /\ gPc' = s.pc /\ gCurrent' = s.current /\ gCurDest' = s.curDest
    /\ gClipped' = s.clipped /\ gE' = s.e /\ gMin' = s.min /\ gMax' = s.max
    /\ gMinInGamut' = s.minInGamut /\ gResult' = s.result /\ gRet' = s.ret

GamutInit ==
    /\ gPc = "idle"
    /\ gC = NoColor /\ gTo = Nil /\ gPlain = NoColor
    /\ gCurrent = NoColor /\ gCurDest = <<0, 0, 0>> /\ gClipped = NoColor
    /\ gE = 0 /\ gMin = 0 /\ gMax = 0 /\ gMinInGamut = TRUE
    /\ gResult = NoColor /\ gRet = "none"

\* GamutMapCSS(c, to) is called and runs up to the loop.
GamutMapCSS(c, to, plain, e) ==
    /\ gPc = "idle"
    /\ gC' = c /\ gTo' = to
    /\ gPlain' = [Values |-> plain, Space |-> to, Alpha |-> c.Alpha]
    /\ SetLocals(BeforeLoop(c, to, plain, e))
    /\ UNCHANGED notGamut

\* for max-min > ϵ: the body is entered, or the loop is left and clipped is
\* returned.
GamutMapLoopTest ==
    /\ gPc = "test"
    /\ IF gMax - gMin > GamutMapEps
       THEN SetLocals([Locals EXCEPT !.pc = "body"])
       ELSE SetLocals(Returned(Locals, gClipped, "loop exit"))
    /\ UNCHANGED <<gC, gTo, gPlain>>
    /\ UNCHANGED notGamut

\* the body of the loop runs once
GamutMapLoopBody(dest, e) ==
    /\ gPc = "body"
    /\ SetLocals(LoopBody(Locals, gTo, dest, e))
    /\ UNCHANGED <<gC, gTo, gPlain>>
    /\ UNCHANGED notGamut

----------------------------------------------------------------------------
(* The registry *)

\* registerColorSpace that stores cs whether or not its id is taken.
RECURSIVE registerColorSpace_Overwrite(_, _)
registerColorSpace_Overwrite(m, cs) ==
    LET m2 == (ID(cs) :> cs) @@ m
    IN  IF Base(cs) # Nil /\ ID(Base(cs)) \notin DOMAIN m2
        THEN registerColorSpace_Overwrite(m2, Base(cs))
        ELSE m2

\* registerColorSpace that registers cs alone, without its base.
registerColorSpace_NoBase(m, cs) ==
    IF ID(cs) \in DOMAIN m THEN m ELSE (ID(cs) :> cs) @@ m

\* registerColorSpace(cs) on the map m: the map it leaves.
RECURSIVE registerColorSpace(_, _)
registerColorSpace(m, cs) ==
    IF ID(cs) \in DOMAIN m
    THEN m
    ELSE LET m2 == (ID(cs) :> cs) @@ m
         IN  IF Base(cs) # Nil /\ ID(Base(cs)) \notin DOMAIN m2
             THEN registerColorSpace(m2, Base(cs))
             ELSE m2

\* The calls of the package's init(), in order.
InitOrder ==
    <<"XYZ_D50", "XYZ_D65", "LinearDisplayP3", "DisplayP3", "LinearSRGB", "SRGB",
      "Oklab", "Oklch", "ProPhoto", "LinearProPhoto", "Lab", "LCh">>

RECURSIVE RegisterAll(_, _)
RegisterAll(m, order) ==
    IF order = <<>> THEN m
    ELSE RegisterAll(registerColorSpace(m, Head(order)), Tail(order))

\* colorSpaces once init() has run, which is before any call of a user.
InitRegistry == RegisterAll(<<>>, InitOrder)

\* An id as LookupColorSpace is given it: with or without the "--" prefix.
LookupKeys == {<<pre, ID(n)>> : pre \in {"", "--"}, n \in Spaces} \cup {<<"", "nope">>}

\* strings.TrimPrefix(id, "--")
TrimPrefix(key) == key[2]

\* LookupColorSpace(id) on the map m: <<cs, ok>>
LookupIn(m, key) ==
    IF TrimPrefix(key) \in DOMAIN m
    THEN <<m[TrimPrefix(key)], TRUE>>
    ELSE <<Nil, FALSE>>

RegInit ==
    /\ colorSpaces = InitRegistry
    /\ prevSpaces = InitRegistry
    /\ lastOp = "none"
    /\ lastArg = Nil
    /\ lastFound = <<Nil, FALSE>>

RegisterColorSpace(cs) ==
    /\ colorSpaces' = registerColorSpace(colorSpaces, cs)
    /\ prevSpaces' = colorSpaces
    /\ lastOp' = "Register"
    /\ lastArg' = cs
    /\ UNCHANGED lastFound
    /\ UNCHANGED notReg

LookupColorSpace(key) ==
    /\ lastFound' = LookupIn(colorSpaces, key)
    /\ prevSpaces' = colorSpaces
    /\ lastOp' = "Lookup"
    /\ lastArg' = key
    /\ UNCHANGED colorSpaces
    /\ UNCHANGED notReg

----------------------------------------------------------------------------
(* Concurrent calls of RegisterColorSpace and LookupColorSpace *)

\* The goroutines that call into the registry.
Threads == {"t1", "t2", "t3"}

\* What they register: a space whose base is not registered either, a space
\* whose base has a taken id, and a space of the package.
LockRegisterArgs == {"U_Z", "U_Y", "SRGB"}

\* What they look up.
LockLookupKeys == {<<"", "z">>, <<"--", "root2">>, <<"", "srgb">>}

\* colorSpacesMu, a sync.RWMutex: w is the goroutine that is in Lock or holds
\* the write lock, writer the goroutine that holds it, readers the goroutines
\* that hold the read lock.
MuFree == [w |-> Nil, writer |-> Nil, readers |-> {}]

\* Lock returns to a goroutine that has announced itself once no reader holds
\* the lock, as though RegisterColorSpace did not wait for the readers.
CanLock_IgnoreReaders(m, t) == m.w = t

\* colorSpacesMu.Lock() returns to t: t has announced itself as the writer
\* and no reader holds the lock.
CanLock(m, t) == m.w = t /\ m.readers = {}

\* colorSpacesMu.RLock() returns: no writer holds the lock or waits for it.
CanRLock(m) == m.w = Nil

LockOff ==
    /\ mu = MuFree
    /\ tPc = [t \in Threads |-> "idle"]
    /\ tArg = [t \in Threads |-> Nil]
    /\ tCs = [t \in Threads |-> Nil]
    /\ tFound = [t \in Threads |-> <<Nil, FALSE>>]
    /\ committed = <<>>
    /\ tOverlap = FALSE

\* The goroutines start once the package's init() has run.
LockInit ==
    /\ mu = MuFree
    /\ tPc = [t \in Threads |-> "idle"]
    /\ tArg = [t \in Threads |-> Nil]
    /\ tCs = [t \in Threads |-> Nil]
    /\ tFound = [t \in Threads |-> <<Nil, FALSE>>]
    /\ committed = InitRegistry
    /\ tOverlap = FALSE
    /\ colorSpaces = InitRegistry
    /\ prevSpaces = <<>>
    /\ lastOp = "none"
    /\ lastArg = Nil
    /\ lastFound = <<Nil, FALSE>>

\* t calls RegisterColorSpace(cs)
TRegisterCall(t, cs) ==
    /\ tPc[t] = "idle"
    /\ tPc' = [tPc EXCEPT ![t] = "lock"]
    /\ tArg' = [tArg EXCEPT ![t] = cs]
    /\ UNCHANGED <<mu, tCs, tFound, committed, tOverlap, colorSpaces>>
    /\ UNCHANGED notLock

\* colorSpacesMu.Lock(): t becomes the one writer that waits for the readers
TLockAnnounce(t) ==
    /\ tPc[t] = "lock"
    /\ mu.w = Nil
    /\ mu' = [mu EXCEPT !.w = t]
    /\ tPc' = [tPc EXCEPT ![t] = "lockWait"]
    /\ UNCHANGED <<tArg, tCs, tFound, committed, tOverlap, colorSpaces>>
    /\ UNCHANGED notLock

\* colorSpacesMu.Lock() returns; registerColorSpace(cs) is called
TLockAcquire(t) ==
    /\ tPc[t] = "lockWait"
    /\ CanLock(mu, t)
    /\ mu' = [mu EXCEPT !.writer = t]
    /\ tPc' = [tPc EXCEPT ![t] = "register"]
    /\ tCs' = [tCs EXCEPT ![t] = tArg[t]]
    /\ UNCHANGED <<tArg, tFound, committed, tOverlap, colorSpaces>>
    /\ UNCHANGED notLock

\* registerColorSpace(cs) up to colorSpaces[cs.ID] = cs: it returns if the id
\* is taken
TRegisterInsert(t) ==
    /\ tPc[t] = "register"
    /\ IF ID(tCs[t]) \in DOMAIN colorSpaces
       THEN /\ tPc' = [tPc EXCEPT ![t] = "unlock"]
            /\ UNCHANGED colorSpaces
       ELSE /\ colorSpaces' = (ID(tCs[t]) :> tCs[t]) @@ colorSpaces
            /\ tPc' = [tPc EXCEPT ![t] = "base"]
    /\ UNCHANGED <<mu, tArg, tCs, tFound, committed, tOverlap>>
    /\ UNCHANGED notLock

\* the rest of registerColorSpace(cs): registerColorSpace(cs.Base) is called
\* if there is a base and its id is free
TRegisterBase(t) ==
    /\ tPc[t] = "base"
    /\ IF Base(tCs[t]) # Nil /\ ID(Base(tCs[t])) \notin DOMAIN colorSpaces
       THEN /\ tCs' = [tCs EXCEPT ![t] = Base(tCs[t])]
            /\ tPc' = [tPc EXCEPT ![t] = "register"]
       ELSE /\ tPc' = [tPc EXCEPT ![t] = "unlock"]
            /\ UNCHANGED tCs
    /\ UNCHANGED <<mu, tArg, tFound, committed, tOverlap, colorSpaces>>
    /\ UNCHANGED notLock

\* the deferred colorSpacesMu.Unlock(); RegisterColorSpace returns
TUnlock(t) ==
    /\ tPc[t] = "unlock"
    /\ mu' = [mu EXCEPT !.w = Nil, !.writer = Nil]
    /\ committed' = colorSpaces
    /\ tPc' = [tPc EXCEPT ![t] = "idle"]
    /\ tArg' = [tArg EXCEPT ![t] = Nil]
    /\ tCs' = [tCs EXCEPT ![t] = Nil]
    /\ UNCHANGED <<tFound, tOverlap, colorSpaces>>
    /\ UNCHANGED notLock

\* t calls LookupColorSpace(id)
TLookupCall(t, key) ==
    /\ tPc[t] = "idle"
    /\ tPc' = [tPc EXCEPT ![t] = "rlock"]
    /\ tArg' = [tArg EXCEPT ![t] = key]
    /\ UNCHANGED <<mu, tCs, tFound, committed, tOverlap, colorSpaces>>
    /\ UNCHANGED notLock

\* colorSpacesMu.RLock() returns
TRLock(t) ==
    /\ tPc[t] = "rlock"
    /\ CanRLock(mu)
    /\ mu' = [mu EXCEPT !.readers = @ \cup {t}]
    /\ tOverlap' = (tOverlap \/ mu.readers # {})
    /\ tPc' = [tPc EXCEPT ![t] = "read"]
    /\ UNCHANGED <<tArg, tCs, tFound, committed, colorSpaces>>
    /\ UNCHANGED notLock

\* cs, ok := colorSpaces[id]
TRead(t) ==
    /\ tPc[t] = "read"
    /\ tFound' = [tFound EXCEPT ![t] = LookupIn(colorSpaces, tArg[t])]
    /\ tPc' = [tPc EXCEPT ![t] = "runlock"]
    /\ UNCHANGED <<mu, tArg, tCs, committed, tOverlap, colorSpaces>>
    /\ UNCHANGED notLock

\* the deferred colorSpacesMu.RUnlock(); LookupColorSpace returns, and what
\* it returned is used up
TRUnlock(t) ==
    /\ tPc[t] = "runlock"
    /\ mu' = [mu EXCEPT !.readers = @ \ {t}]
    /\ tPc' = [tPc EXCEPT ![t] = "idle"]
    /\ tArg' = [tArg EXCEPT ![t] = Nil]
    /\ tFound' = [tFound EXCEPT ![t] = <<Nil, FALSE>>]
    /\ UNCHANGED <<tCs, committed, tOverlap, colorSpaces>>
    /\ UNCHANGED notLock

----------------------------------------------------------------------------
(* ColorSpace.Init and ColorSpace.Convert on the nodes a program has built *)

\* Longest out slice the memory of the process holds.
MaxPathLen == 5

\* Nodes built with &ColorSpace{...} whose Base pointers form a cycle, and a
\* node with neither a Base nor Coords.
CyclicSpaces == {"U_C1", "U_C2"}

Nodes ==
    {"XYZ_D65", "LinearSRGB", "SRGB", "Oklab", "U_Rgb", "U_Root", "U_Z",
     "U_Bare"} \cup CyclicSpaces

\* cs.Base
NodeBase(n) ==
    CASE n = "U_C1"   -> "U_C2"
      [] n = "U_C2"   -> "U_C1"
      [] n = "U_Bare" -> Nil
      [] OTHER        -> Base(n)

\* cs.Coords != ([3]Coordinate{}) in the composite literal of the node
NodeCoordsSet(n) == n \in {"XYZ_D65", "LinearSRGB", "Oklab", "U_Rgb", "U_Root"}

\* The nodes of the package are initialised where they are declared.
NodesInit ==
    /\ path = [n \in Nodes |-> IF n \in PackageSpaces THEN Path(n) ELSE <<>>]
    /\ iPc = "idle"
    /\ iOrig = Nil
    /\ iCs = Nil
    /\ iOut = <<>>
    /\ cvA = Nil
    /\ cvB = Nil
    /\ cvRes = [panic |-> FALSE, coords |-> <<0, 0, 0>>, calls |-> <<>>,
                ourPath |-> <<>>, theirPath |-> <<>>]

\* The gamut methods while no specification uses them.
QueryOff ==
    /\ qOp = "off"
    /\ qC = <<>>
    /\ qTo = Nil
    /\ qRes = FALSE

\* The nodes while no specification uses them.
NodesOff ==
    /\ path = <<>>
    /\ iPc = "idle"
    /\ iOrig = Nil
    /\ iCs = Nil
    /\ iOut = <<>>
    /\ cvA = Nil
    /\ cvB = Nil
    /\ cvRes = <<>>

\* The program is between two calls: a panic was recovered from, an exhausted
\* memory ended the process.
BetweenCalls == iPc \in {"idle", "returned", "panic"}

\* cs.Init() up to the loop: unset Coords are read from cs.Base, a nil
\* pointer dereference when there is no base.
InitCall(n) ==
    /\ BetweenCalls
    /\ iOrig' = n
    /\ iOut' = <<>>
    /\ IF ~NodeCoordsSet(n) /\ NodeBase(n) = Nil
       THEN iPc' = "panic" /\ iCs' = Nil
       ELSE iPc' = "walk" /\ iCs' = n
    /\ UNCHANGED <<path, cvA, cvB, cvRes>>
    /\ UNCHANGED notInit

\* One iteration of "for cs != nil".
InitLoop ==
    /\ iPc = "walk"
    /\ iCs # Nil
    /\ Len(iOut) < MaxPathLen
    /\ iOut' = Append(iOut, iCs)
    /\ iCs' = NodeBase(iCs)
    /\ UNCHANGED <<path, iPc, iOrig, cvA, cvB, cvRes>>
    /\ UNCHANGED notInit

\* append finds no memory for a longer slice.
InitExhaust ==
    /\ iPc = "walk"
    /\ iCs # Nil
    /\ Len(iOut) >= MaxPathLen
    /\ iPc' = "exhausted"
    /\ UNCHANGED <<path, iOrig, iCs, iOut, cvA, cvB, cvRes>>
    /\ UNCHANGED notInit

\* InitReturn without slices.Reverse: the path is stored self first.
InitReturn_NoReverse ==
    /\ iPc = "walk"
    /\ iCs = Nil
    /\ path' = [path EXCEPT ![iOrig] = iOut]
    /\ iPc' = "returned"
    /\ UNCHANGED <<iOrig, iCs, iOut, cvA, cvB, cvRes>>
    /\ UNCHANGED notInit

\* The loop is left: slices.Reverse(out); orig.path = out; return orig
InitReturn ==
    /\ iPc = "walk"
    /\ iCs = Nil
    /\ path' = [path EXCEPT ![iOrig] = Reverse(iOut)]
    /\ iPc' = "returned"
    /\ UNCHANGED <<iOrig, iCs, iOut, cvA, cvB, cvRes>>
    /\ UNCHANGED notInit

\* cs.Convert(to, coords) with the paths the two nodes hold at the call.
NodeConvert(cs, to, coords) ==
    /\ BetweenCalls
    /\ cvA' = cs
    /\ cvB' = to
    /\ cvRes' = LET r == ConvertPaths(path[cs], path[to], coords)
                IN  [panic |-> r.panic, coords |-> r.coords, calls |-> r.calls,
                     ourPath |-> path[cs], theirPath |-> path[to]]
    /\ UNCHANGED <<path, iPc, iOrig, iCs, iOut>>
    /\ UNCHANGED notInit

----------------------------------------------------------------------------
(* Strings, the regular expression reColor and strconv.ParseFloat *)

\* A string is the sequence of its characters.
Digits == {"0", "1", "2", "3", "4", "5", "6", "7", "8", "9"}

Letters ==
    {"a", "b", "c", "d", "e", "f", "g", "h", "i", "j", "k", "l", "m", "n", "o",
     "p", "q", "r", "s", "t", "u", "v", "w", "x", "y", "z",
     "A", "B", "C", "D", "E", "F", "G", "H", "I", "J", "K", "L", "M", "N", "O",
     "P", "Q", "R", "S", "T", "U", "V", "W", "X", "Y", "Z"}

\* [a-zA-Z0-9-]
IdClass == Letters \cup Digits \cup {"-"}

\* The characters the number groups of reColor are made of.
NumClass == Digits \cup {"+", "-", ".", "e", "E", "%"}

DigitVal(c) ==
    CASE c = "0" -> 0 [] c = "1" -> 1 [] c = "2" -> 2 [] c = "3" -> 3
      [] c = "4" -> 4 [] c = "5" -> 5 [] c = "6" -> 6 [] c = "7" -> 7
      [] c = "8" -> 8 [] c = "9" -> 9

\* s[i], and "" past the end of s
At(s, i) == IF i \in 1..Len(s) THEN s[i] ELSE ""

\* s[i:j+1] with i and j counted from 1, and no further than s goes
Sub(s, i, j) == SubSeq(s, i, Min(j, Len(s)))

\* s[i:], with i counted from 1
From(s, i) == Sub(s, i, Len(s))

\* The index of the last character of the longest run of characters of
\* class that starts at s[i]; i - 1 when s[i] is not of the class.
RECURSIVE RunEnd(_, _, _)
RunEnd(s, i, class) ==
    IF At(s, i) \in class THEN RunEnd(s, i + 1, class) ELSE i - 1

\* [+-]?
Unsigned(s) == IF At(s, 1) \in {"+", "-"} THEN Tail(s) ELSE s

AllDigits(s) == s # <<>> /\ \A k \in 1..Len(s) : s[k] \in Digits

\* [+-]?\d+|[+-]?\d*\.\d+(?:[eE][+-]?\d+)? against the whole of tok
MatchNum(tok) ==
    LET body == Unsigned(tok)
        d    == RunEnd(body, 1, Digits)
        f    == RunEnd(body, d + 2, Digits)
    IN  \/ d >= 1 /\ d = Len(body)
        \/ /\ At(body, d + 1) = "."
           /\ f >= d + 2
           /\ \/ f = Len(body)
              \/ /\ At(body, f + 1) \in {"e", "E"}
                 /\ AllDigits(Unsigned(From(body, f + 2)))

\* MatchNumPct with \d* in place of \d+ in both alternatives: a token
\* without a digit matches.
MatchNumPct_NoDigit(tok) ==
    LET t    == IF At(tok, Len(tok)) = "%" THEN Sub(tok, 1, Len(tok) - 1) ELSE tok
        body == Unsigned(t)
    IN  body = <<>> \/ MatchNum(t)

\* (?:num)%? against the whole of tok
MatchNumPct(tok) ==
    MatchNum(IF At(tok, Len(tok)) = "%" THEN Sub(tok, 1, Len(tok) - 1) ELSE tok)

ColorOpen == <<"c", "o", "l", "o", "r", "(">>

NoMatch == [matched |-> FALSE, space |-> <<>>, x |-> <<>>, y |-> <<>>,
            z |-> <<>>, a |-> <<>>]

\* reColor.FindStringSubmatch(s).  No character that ends a group (a space,
\* a parenthesis) is of the class of the group, so each group is the longest
\* run of its class.  A group that took no part in the match is "".
FindStringSubmatch(s) ==
    LET idEnd == RunEnd(s, 7, IdClass)
        xEnd  == RunEnd(s, idEnd + 2, NumClass)
        yEnd  == RunEnd(s, xEnd + 2, NumClass)
        zEnd  == RunEnd(s, yEnd + 2, NumClass)
        slash == Sub(s, zEnd + 1, zEnd + 3) = <<" ", "/", " ">>
        aEnd  == IF slash THEN RunEnd(s, zEnd + 4, NumClass) ELSE zEnd
        x     == Sub(s, idEnd + 2, xEnd)
        y     == Sub(s, xEnd + 2, yEnd)
        z     == Sub(s, yEnd + 2, zEnd)
        a     == IF slash THEN Sub(s, zEnd + 4, aEnd) ELSE <<>>
    IN  IF /\ Sub(s, 1, 6) = ColorOpen
           /\ idEnd >= 7
           /\ At(s, idEnd + 1) = " "
           /\ MatchNumPct(x)
           /\ At(s, xEnd + 1) = " "
           /\ MatchNumPct(y)
           /\ At(s, yEnd + 1) = " "
           /\ MatchNumPct(z)
           /\ slash => MatchNumPct(a)
           /\ From(s, aEnd + 1) \in {<<")">>, <<")", ";">>}
        THEN [matched |-> TRUE, space |-> Sub(s, 7, idEnd), x |-> x, y |-> y,
              z |-> z, a |-> a]
        ELSE NoMatch

\* The number a run of digits spells.
RECURSIVE DigitsToNat(_)
DigitsToNat(s) ==
    IF s = <<>> THEN 0
    ELSE 10 * DigitsToNat(Sub(s, 1, Len(s) - 1)) + DigitVal(s[Len(s)])

\* s without its leading zeros
RECURSIVE NoLeadingZeros(_)
NoLeadingZeros(s) == IF At(s, 1) = "0" THEN NoLeadingZeros(Tail(s)) ELSE s

RECURSIVE Pow10(_)
Pow10(n) == IF n <= 0 THEN 1 ELSE 10 * Pow10(n - 1)

\* The largest decimal exponent of a float64 (1.797...e308).
MaxExp10 == 308

\* strconv.ParseFloat(s, 64) for an s that matches the number of reColor:
\* an error when the number is beyond the largest float64, else the number
\* in units of 1/One.  Numbers between 1e308 and the largest float64 count as
\* in range up to 1.7e308.
ParseFloat(s) ==
    LET neg     == At(s, 1) = "-"
        body    == Unsigned(s)
        d       == RunEnd(body, 1, Digits)
        hasFrac == At(body, d + 1) = "."
        f       == IF hasFrac THEN RunEnd(body, d + 2, Digits) ELSE d
        frac    == IF hasFrac THEN Sub(body, d + 2, f) ELSE <<>>
        ex      == From(body, f + 2)
        expo    == IF ex = <<>> THEN 0
                   ELSE IF At(ex, 1) = "-" THEN 0 - DigitsToNat(Unsigned(ex))
                   ELSE DigitsToNat(Unsigned(ex))
        mant    == NoLeadingZeros(Sub(body, 1, d) \o frac)
        exp10   == expo - Len(frac)
        order   == Len(mant) + exp10 - 1
        tooBig  == /\ mant # <<>>
                   /\ \/ order > MaxExp10
                      \/ order = MaxExp10 /\ DigitsToNat(Sub(mant, 1, 2)) > 17
        m       == DigitsToNat(mant)
        abs     == IF mant = <<>> \/ order < 0 - 6 THEN 0
                   ELSE IF exp10 >= 0 THEN m * Pow10(exp10) * One
                   ELSE (m * One) \div Pow10(0 - exp10)
    IN  IF tooBig THEN [err |-> TRUE, f |-> 0]
        ELSE [err |-> FALSE, f |-> IF neg THEN 0 - abs ELSE abs]

----------------------------------------------------------------------------
(* Parse and Color.String *)

\* The characters of the ids of the registered color spaces.
Spell(id) ==
    CASE id = "xyz-d65"             -> <<"x", "y", "z", "-", "d", "6", "5">>
      [] id = "xyz-d50"             -> <<"x", "y", "z", "-", "d", "5", "0">>
      [] id = "display-p3-linear"   ->
             <<"d", "i", "s", "p", "l", "a", "y", "-", "p", "3", "-", "l", "i",
               "n", "e", "a", "r">>
      [] id = "display-p3"          ->
             <<"d", "i", "s", "p", "l", "a", "y", "-", "p", "3">>
      [] id = "srgb-linear"         ->
             <<"s", "r", "g", "b", "-", "l", "i", "n", "e", "a", "r">>
      [] id = "srgb"                -> <<"s", "r", "g", "b">>
      [] id = "oklab"               -> <<"o", "k", "l", "a", "b">>
      [] id = "oklch"               -> <<"o", "k", "l", "c", "h">>
      [] id = "lab"                 -> <<"l", "a", "b">>
      [] id = "lch"                 -> <<"l", "c", "h">>
      [] id = "prophoto-rgb-linear" ->
             <<"p", "r", "o", "p", "h", "o", "t", "o", "-", "r", "g", "b", "-",
               "l", "i", "n", "e", "a", "r">>
      [] id = "prophoto-rgb"        ->
             <<"p", "r", "o", "p", "h", "o", "t", "o", "-", "r", "g", "b">>
      [] id = "my-rgb"              -> <<"m", "y", "-", "r", "g", "b">>
      [] OTHER                      -> <<"?">>

\* TrimDashes that leaves the prefix where it is.
TrimDashes_Keep(s) == s

\* strings.TrimPrefix(id, "--") on the characters of id
TrimDashes(s) == IF Sub(s, 1, 2) = <<"-", "-">> THEN From(s, 3) ELSE s

\* LookupSpace(space) on the map m: <<cs, ok>>
LookupSpace(m, space) ==
    LET found == {k \in DOMAIN m : Spell(k) = TrimDashes(space)}
    IN  IF found # {} THEN <<m[CHOOSE k \in found : TRUE], TRUE>>
        ELSE <<Nil, FALSE>>

\* cs.Coords[i].RefRange once Init has run, in units of 1/One: the declared
\* reference range, and the range where none is declared.
RECURSIVE RefRange(_)
RefRange(n) ==
    CASE n = "XYZ_D65" -> <<<<0, One>>, <<0, One>>, <<0, One>>>>
      [] n = "Oklab"   -> <<<<0, One>>, <<0 - (2 * One) \div 5, (2 * One) \div 5>>,
                            <<0 - (2 * One) \div 5, (2 * One) \div 5>>>>
      [] n = "Oklch"   -> <<<<0, One>>, <<0, (2 * One) \div 5>>, <<0, 360 * One>>>>
      [] n = "Lab"     -> <<<<0, 100 * One>>, <<0 - 125 * One, 125 * One>>,
                            <<0 - 125 * One, 125 * One>>>>
      [] n = "LCh"     -> <<<<0, 100 * One>>, <<0, 150 * One>>, <<0, 360 * One>>>>
      [] n \in {"LinearDisplayP3", "LinearSRGB", "LinearProPhoto", "ProPhoto",
                "U_Root"} ->
                          <<<<0, One>>, <<0, One>>, <<0, One>>>>
      [] n = "U_Rgb"   -> <<<<0, One \div 2>>, <<0, One \div 2>>, <<0, One \div 2>>>>
      [] OTHER         -> RefRange(Base(n))

\* The percentage branch up to f /= 100.
Percent(f) == clamp(f, 0, 100 * One) \div 100

\* The closure parseValue(idx, s) of Parse for the color space cs: whether it
\* panics, what it returns, and values[idx] after it (0 when it stores
\* nothing).  idx is that of the code.
parseValue(cs, idx, s) ==
    IF idx = 3 /\ Len(s) = 0
    THEN [panic |-> FALSE, ret |-> TRUE, value |-> One]
    ELSE IF Len(s) = 0
    THEN [panic |-> TRUE, ret |-> FALSE, value |-> 0]
    ELSE IF s[Len(s)] = "%"
    THEN LET r == ParseFloat(Sub(s, 1, Len(s) - 1))
             f == Percent(r.f)
             rng == RefRange(cs)[idx + 1]
         IN  IF r.err THEN [panic |-> FALSE, ret |-> FALSE, value |-> 0]
             ELSE [panic |-> FALSE, ret |-> TRUE,
                   value |-> IF idx = 3 THEN f
                             ELSE lerp(rng[1], rng[2], <<f, One>>)]
    ELSE LET r == ParseFloat(s)
         IN  IF r.err THEN [panic |-> FALSE, ret |-> FALSE, value |-> 0]
             ELSE [panic |-> FALSE, ret |-> TRUE,
                   value |-> IF idx = 3 THEN clamp(r.f, 0, One) ELSE r.f]

\* The four calls of the closure, parseValue(0, x) ... parseValue(3, a), on
\* the groups g of the match.
parseValues(cs, g) ==
    [idx \in 0..3 |-> parseValue(cs, idx, <<g.x, g.y, g.z, g.a>>[idx + 1])]

\* The last statement of Parse, after the four calls v of the closure: what
\* the calls return is dropped.
ParseMake(cs, v) ==
    IF \E idx \in 0..3 : v[idx].panic
    THEN [panic |-> TRUE, ok |-> FALSE, color |-> NoColor]
    ELSE [panic |-> FALSE, ok |-> TRUE,
          color |-> Make(cs, v[0].value, v[1].value, v[2].value, v[3].value)]

\* Parse from the test of LookupSpace's result l on.
ParseSpace(l, g) ==
    IF ~l[2]
    THEN [panic |-> FALSE, ok |-> FALSE, color |-> Make("SRGB", 0, 0, 0, One)]
    ELSE ParseMake(l[1], parseValues(l[1], g))

\* Parse from the test of the match g on.
ParseSubmatch(m, g) ==
    IF ~g.matched THEN [panic |-> FALSE, ok |-> FALSE, color |-> NoColor]
    ELSE ParseSpace(LookupSpace(m, IF g.space = <<"x", "y", "z">>
                                   THEN Spell("xyz-d65") ELSE g.space), g)

\* Parse(s) with the registry m: whether it panics, and the pair it returns.
Parse(m, s) == ParseSubmatch(m, FindStringSubmatch(s))

DigitChar(d) ==
    CASE d = 0 -> "0" [] d = 1 -> "1" [] d = 2 -> "2" [] d = 3 -> "3"
      [] d = 4 -> "4" [] d = 5 -> "5" [] d = 6 -> "6" [] d = 7 -> "7"
      [] d = 8 -> "8" [] d = 9 -> "9"

\* The decimal digits of n, at least width of them.
RECURSIVE NatDigits(_, _)
NatDigits(n, width) ==
    IF n < 10 /\ width <= 1 THEN <<DigitChar(n)>>
    ELSE Append(NatDigits(n \div 10, width - 1), DigitChar(n % 10))

\* fmt's %f of a number in units of 1/One: six digits after the point.
FormatF(v) ==
    LET abs  == IF v < 0 THEN 0 - v ELSE v
        frac == ((abs % One) * 1000000 + One \div 2) \div One
    IN  (IF v < 0 THEN <<"-">> ELSE <<>>)
        \o NatDigits(abs \div One, 1) \o <<".">> \o NatDigits(frac, 6)

\* isCSS with "xyz-d65" missing from the case list.
IsCSS_NoXYZ(id) ==
    id \in {"srgb", "srgb-linear", "display-p3", "a98-rgb", "prophoto-rgb",
            "rec2020", "xyz-d50"}

\* isCSS, from the switch on c.Space.ID
IsCSS(id) ==
    id \in {"srgb", "srgb-linear", "display-p3", "a98-rgb", "prophoto-rgb",
            "rec2020", "xyz-d50", "xyz-d65"}

\* c.String()
String(c) ==
    LET id == (IF IsCSS(ID(c.Space)) THEN <<>> ELSE <<"-", "-">>)
              \o Spell(ID(c.Space))
        head == ColorOpen \o id \o <<" ">> \o FormatF(c.Values[1]) \o <<" ">>
                \o FormatF(c.Values[2]) \o <<" ">> \o FormatF(c.Values[3])
    IN  IF c.Alpha # One
        THEN head \o <<" ", "/", " ">> \o FormatF(c.Alpha) \o <<")">>
        ELSE head \o <<")">>

\* colorSpaces when Parse is called: init() has run and the program has
\* registered its space on top of sRGB.
ParseRegistry == registerColorSpace(InitRegistry, "U_Rgb")

\* Number tokens of the literals that are parsed: their characters, what
\* they are (a bare number, a percentage, a number beyond float64, not a
\* number of the grammar) and their value, a percentage in percent and a
\* bare number in units of 1/One.
Tok(chars, kind, val) == [chars |-> chars, kind |-> kind, val |-> val]

NoTok == Tok(<<>>, "absent", 0)

CoordTokens ==
    {Tok(<<"1">>, "bare", One),
     Tok(<<"0">>, "bare", 0),
     Tok(<<"0", ".", "4">>, "bare", (2 * One) \div 5),
     Tok(<<".", "5">>, "bare", One \div 2),
     Tok(<<"-", "1", ".", "5", "e", "1">>, "bare", 0 - 15 * One),
     Tok(<<"2", "5", ".", "0", "E", "-", "2">>, "bare", One \div 4),
     Tok(<<"3", "0", "%">>, "pct", 30),
     Tok(<<"+", "1", "0", "0", "%">>, "pct", 100),
     Tok(<<"0", "%">>, "pct", 0),
     Tok(<<"1", ".", "0", "e", "9", "9", "9">>, "overflow", 0),
     Tok(<<"2", ".", "5", "e", "4", "0", "0", "%">>, "overflow", 0),
     Tok(<<"1", "e", "5">>, "bad", 0),
     Tok(<<"1", ".">>, "bad", 0),
     Tok(<<>>, "bad", 0)}

SecondTokens ==
    {t \in CoordTokens : t.chars \in {<<"0">>, <<"3", "0", "%">>,
                                      <<"1", ".", "0", "e", "9", "9", "9">>}}

ThirdTokens ==
    {t \in CoordTokens : t.chars \in {<<"0">>, <<"0", ".", "4">>,
                                      <<"+", "1", "0", "0", "%">>}}

AlphaTokens ==
    {NoTok,
     Tok(<<"1">>, "bare", One),
     Tok(<<"0", ".", "4">>, "bare", (2 * One) \div 5),
     Tok(<<"4", "0", "%">>, "pct", 40),
     Tok(<<"1", ".", "0", "e", "9", "9", "9">>, "overflow", 0),
     Tok(<<"%">>, "bad", 0)}

\* The space ids of the literals, and the node each names (Nil: none).
SpaceId(chars, node) == [chars |-> chars, node |-> node]

SpaceIds ==
    {SpaceId(Spell("srgb"), "SRGB"),
     SpaceId(Spell("lab"), "Lab"),
     SpaceId(<<"-", "-">> \o Spell("lab"), "Lab"),
     SpaceId(<<"x", "y", "z">>, "XYZ_D65"),
     SpaceId(<<"-", "-", "x", "y", "z">>, Nil),
     SpaceId(<<"-", "-">> \o Spell("my-rgb"), "U_Rgb"),
     SpaceId(<<"n", "o", "p", "e">>, Nil),
     SpaceId(<<"s", "R", "G", "B">>, Nil)}

\* How the parts of a literal are put together: as the grammar has it, with
\* the optional semicolon, without the closing parenthesis, with another
\* function name, with commas between the numbers.
Shapes == {"plain", "semicolon", "unclosed", "rgb", "commas"}

Literal(shape, id, x, y, z, a) ==
    LET sep  == IF shape = "commas" THEN <<",">> ELSE <<" ">>
        open == IF shape = "rgb" THEN <<"r", "g", "b", "(">> ELSE ColorOpen
        end  == CASE shape = "semicolon" -> <<")", ";">>
                  [] shape = "unclosed"  -> <<>>
                  [] OTHER               -> <<")">>
    IN  open \o id.chars \o <<" ">> \o x.chars \o sep \o y.chars \o sep \o z.chars
        \o (IF a = NoTok THEN <<>> ELSE <<" ", "/", " ">> \o a.chars) \o end

\* The literals that are parsed: every combination of the parts in the shape
\* of the grammar, and the other shapes with plain second and third numbers.
ParseInputs ==
    {p \in [shape : Shapes, id : SpaceIds, x : CoordTokens, y : SecondTokens,
            z : ThirdTokens, a : AlphaTokens] :
        p.shape # "plain" =>
            /\ p.y.chars = <<"0">>
            /\ p.z.chars = <<"0">>
            /\ p.a.chars \in {<<>>, <<"1">>}}

\* A program holds a literal it is about to parse.
ParseInit ==
    /\ pParts \in ParseInputs
    /\ pIn = Literal(pParts.shape, pParts.id, pParts.x, pParts.y, pParts.z, pParts.a)
    /\ pPc = "literal"
    /\ pRes = [panic |-> FALSE, ok |-> FALSE, color |-> NoColor]
    /\ pStr = <<>>

\* The parser while no specification uses it.
ParseOff ==
    /\ pParts = <<>>
    /\ pIn = <<>>
    /\ pPc = "off"
    /\ pRes = <<>>
    /\ pStr = <<>>

\* Parse(s)
ParseCall ==
    /\ pPc = "literal"
    /\ pRes' = Parse(colorSpaces, pIn)
    /\ pPc' = "parsed"
    /\ UNCHANGED <<pParts, pIn, pStr>>
    /\ UNCHANGED notParse

\* c.String() for the color c that Parse returned
StringCall ==
    /\ pPc = "parsed"
    /\ ~pRes.panic
    /\ pRes.color.Space # Nil
    /\ pStr' = String(pRes.color)
    /\ pPc' = "printed"
    /\ UNCHANGED <<pParts, pIn, pRes>>
    /\ UNCHANGED notParse

----------------------------------------------------------------------------
(* Specifications *)

\* The registry while no specification uses it.
RegOff ==
    /\ colorSpaces = <<>>
    /\ prevSpaces = <<>>
    /\ lastOp = "none"
    /\ lastArg = Nil
    /\ lastFound = <<Nil, FALSE>>

\* Conversions.
Init == ConvInit /\ RegOff /\ StepInit /\ GamutInit /\ LockOff /\ NodesOff /\ ParseOff /\ QueryOff

Next ==
    \/ \E a \in ConvSpaces, b \in ConvSpaces, in \in ConvInputs,
          ap \in {"Color", "ColorSpace"} : ConvertAB(a, b, in, ap)
    \/ \E c \in ConvSpaces : ConvertBC(c)
    \/ ConvertAC

Spec == Init /\ [][Next]_vars

\* Registrations and lookups, in any order, once the package's init() has run.
InitRegistrySpec == ConvInit /\ RegInit /\ StepInit /\ GamutInit /\ LockOff /\ NodesOff /\ ParseOff /\ QueryOff

NextRegistry ==
    \/ \E cs \in Spaces : RegisterColorSpace(cs)
    \/ \E key \in LookupKeys : LookupColorSpace(key)

SpecRegistry == InitRegistrySpec /\ [][NextRegistry]_vars

\* Calls of Step.
InitStep == ConvInit /\ RegOff /\ StepInit /\ GamutInit /\ LockOff /\ NodesOff /\ ParseOff /\ QueryOff

NextStep ==
    \/ \E c1 \in StepColors, c2 \in StepColors, in \in StepSpaces,
          out \in StepSpaces, num \in 0..MaxNum : StepStart(c1, c2, in, out, num)
    \/ \E more \in BOOLEAN : StepYield(more)
    \/ StepEnd

SpecStep == InitStep /\ [][NextStep]_vars

\* Calls of GamutMapCSS.
InitGamut == ConvInit /\ RegOff /\ StepInit /\ GamutInit /\ LockOff /\ NodesOff /\ ParseOff /\ QueryOff

NextGamut ==
    \/ \E c \in GamutInputs, to \in GamutDests, e \in DeltaValues :
          \E plain \in PlainChoices(c, to) : GamutMapCSS(c, to, plain, e)
    \/ GamutMapLoopTest
    \/ \E dest \in DestTriples, e \in DeltaValues : GamutMapLoopBody(dest, e)

SpecGamut == InitGamut /\ [][NextGamut]_vars

\* A call that has started keeps running: it is not suspended forever.
SpecGamutFair == SpecGamut /\ WF_vars(NextGamut)

\* Goroutines that call RegisterColorSpace and LookupColorSpace, over and
\* over, in any interleaving.
InitLocks == ConvInit /\ StepInit /\ GamutInit /\ LockInit /\ NodesOff /\ ParseOff /\ QueryOff

NextLocks ==
    \/ \E t \in Threads, cs \in LockRegisterArgs : TRegisterCall(t, cs)
    \/ \E t \in Threads : TLockAnnounce(t)
    \/ \E t \in Threads : TLockAcquire(t)
    \/ \E t \in Threads : TRegisterInsert(t)
    \/ \E t \in Threads : TRegisterBase(t)
    \/ \E t \in Threads : TUnlock(t)
    \/ \E t \in Threads, key \in LockLookupKeys : TLookupCall(t, key)
    \/ \E t \in Threads : TRLock(t)
    \/ \E t \in Threads : TRead(t)
    \/ \E t \in Threads : TRUnlock(t)

SpecLocks == InitLocks /\ [][NextLocks]_vars

\* Calls of Init on the nodes a program has built, and conversions between
\* them and the nodes of the package.
InitNodes == ConvInit /\ RegOff /\ StepInit /\ GamutInit /\ LockOff /\ NodesInit /\ ParseOff /\ QueryOff

NextNodes ==
    \/ \E n \in Nodes : InitCall(n)
    \/ InitLoop
    \/ InitExhaust
    \/ InitReturn
    \/ \E cs \in Nodes, to \in Nodes : NodeConvert(cs, to, <<One, 0, 2 * One>>)

SpecNodes == InitNodes /\ [][NextNodes]_vars

\* A call of Parse on a literal put together from parts, and of String on
\* the color it returns.
InitParse ==
    /\ ConvInit /\ StepInit /\ GamutInit /\ LockOff /\ NodesOff /\ ParseInit /\ QueryOff
    /\ colorSpaces = ParseRegistry
    /\ prevSpaces = <<>>
    /\ lastOp = "none"
    /\ lastArg = Nil
    /\ lastFound = <<Nil, FALSE>>

NextParse ==
    \/ ParseCall
    \/ StringCall

SpecParse == InitParse /\ [][NextParse]_vars

\* One call of a gamut method.
InitQuery ==
    /\ ConvInit /\ RegOff /\ StepInit /\ GamutInit /\ LockOff /\ NodesOff /\ ParseOff
    /\ QueryInit

NextQuery ==
    \/ \E cs \in QuerySpaces, v1 \in QueryValues, v2 \in QueryValues,
          v3 \in QueryValues : SpaceInGamutCall(cs, <<v1, v2, v3>>)
    \/ \E cs \in QuerySpaces, v1 \in QueryValues, v2 \in QueryValues,
          al \in {0, One} :
          ColorInGamutCall([Values |-> <<v1, v2, GamutOne \div 4>>, Space |-> cs,
                            Alpha |-> al])
    \/ \E cs \in QueryTreeSpaces, to \in QueryTreeSpaces, v1 \in QueryValues,
          v2 \in QueryValues :
          InGamutOfCall([Values |-> <<v1, v2, GamutOne \div 4>>, Space |-> cs,
                         Alpha |-> One], to)

SpecQuery == InitQuery /\ [][NextQuery]_vars

----------------------------------------------------------------------------
(* Claims about conversion *)

\* The spaces on the base chain of n, n included.
Ancestors(n) == {BaseChain(n)[i] : i \in 1..Len(BaseChain(n))}

Depth(n) == Len(BaseChain(n))

\* The lowest common ancestor of two spaces of one tree, from the Base
\* pointers alone.
LCA(a, b) ==
    CHOOSE n \in Ancestors(a) \cap Ancestors(b) :
        \A m \in Ancestors(a) \cap Ancestors(b) : Depth(m) <= Depth(n)

SameTree(a, b) == Ancestors(a) \cap Ancestors(b) # {}

\* ToBase of n, of its base, ... up to but not including anc.
RECURSIVE UpSegment(_, _)
UpSegment(n, anc) ==
    IF n = anc THEN <<>> ELSE <<<<"ToBase", n>>>> \o UpSegment(Base(n), anc)

\* FromBase of the spaces from just below anc down to n.
RECURSIVE DownSegment(_, _)
DownSegment(anc, n) ==
    IF n = anc THEN <<>> ELSE DownSegment(anc, Base(n)) \o <<<<"FromBase", n>>>>

\* The value a sequence of transfer function calls makes of c.
RECURSIVE ApplyCalls(_, _)
ApplyCalls(calls, c) ==
    IF calls = <<>> THEN c
    ELSE ApplyCalls(Tail(calls),
                    IF Head(calls)[1] = "ToBase"
                    THEN ToBase(Head(calls)[2], c)
                    ELSE FromBase(Head(calls)[2], c))

RoutedThroughLCA(from, to, in, run) ==
    LET want == UpSegment(from, LCA(from, to)) \o DownSegment(LCA(from, to), to)
    IN  /\ run.calls = want
        /\ run.coords = ApplyCalls(want, in)
        /\ \A i \in 1..Len(run.calls), j \in 1..Len(run.calls) :
               (run.calls[i][1] = "FromBase" /\ run.calls[j][1] = "ToBase") => j < i

\* C1: a conversion that returns has called ToBase of the spaces from the
\* source up to, not including, the lowest common ancestor of source and
\* destination, then FromBase of the spaces from just below that ancestor down
\* to the destination, in this order and nothing else, and returns the value
\* these calls make of the input.
C1_RoutesThroughLCA ==
    /\ cpc \in {"ab", "abc", "done"} => RoutedThroughLCA(spA, spB, colIn.Values, rAB)
    /\ cpc \in {"abc", "done"} => RoutedThroughLCA(spB, spC, rAB.coords, rBC)
    /\ cpc = "done" => RoutedThroughLCA(spA, spC, colIn.Values, rAC)

\* A conversion between two branches of the tree below XYZ D50 has run: it
\* went up from LCh and down to ProPhoto.
C1_Witness ==
    /\ cpc = "ab" /\ api = "ColorSpace"
    /\ spA = "LCh" /\ spB = "ProPhoto"
    /\ LCA(spA, spB) = "XYZ_D50"
    /\ Len(rAB.calls) = 4

\* C2: converting from a space to itself returns the input coordinates
\* exactly and calls no ToBase and no FromBase, through Color.Convert and
\* through ColorSpace.Convert alike.
C2_SameSpaceIdentity ==
    (cpc \in {"ab", "abc", "done"} /\ spA = spB) =>
        (rAB.coords = colIn.Values /\ rAB.calls = <<>>)

\* ColorSpace.Convert has converted from Oklch, three levels down, to Oklch.
C2_Witness ==
    /\ cpc = "ab" /\ api = "ColorSpace"
    /\ spA = "Oklch" /\ spB = "Oklch"
    /\ rAB.coords = colIn.Values

\* C3: with ToBase and FromBase exact inverses, converting A to B and the
\* result to C gives what converting A to C gives; with C = A it gives back
\* the input.
C3_Transitive ==
    cpc = "done" =>
        /\ rBC.coords = rAC.coords
        /\ (spC = spA => rBC.coords = colIn.Values)

\* sRGB to LCh to Oklch and sRGB to Oklch have all run, across three
\* branches of the tree.
C3_Witness ==
    /\ cpc = "done"
    /\ spA = "SRGB" /\ spB = "LCh" /\ spC = "Oklch"
    /\ rAB.coords # colIn.Values
    /\ rBC.coords # rAB.coords

----------------------------------------------------------------------------
(* Claims about the registry *)

Registered == {colorSpaces[id] : id \in DOMAIN colorSpaces}

\* The last call was RegisterColorSpace(lastArg) and lastArg's id was free.
RegisteredFresh == lastOp = "Register" /\ ID(lastArg) \notin DOMAIN prevSpaces

\* C8: the registered color spaces form one tree: no space is its own
\* ancestor, exactly one registered space has no base, and every registered
\* space reaches it by following Base.
C8_SingleRootTree ==
    LET roots == {n \in Registered : Base(n) = Nil}
    IN  /\ \A n \in Registered : Base(n) # Nil => n \notin Ancestors(Base(n))
        /\ Cardinality(roots) = 1
        /\ \A n \in Registered : \A r \in roots : r \in Ancestors(n)

\* C9 as claimed: after registering a color space whose id was free, the id
\* of every space on its base chain can be looked up, whatever was
\* registered before.
C9_ChainRegistered ==
    RegisteredFresh =>
        \A a \in Ancestors(lastArg) : LookupIn(colorSpaces, <<"", ID(a)>>)[2]

\* No id on the base chain of cs is held by another space: not by another
\* space of the chain, and not, in the map m, by a space that is not the one
\* of the chain.
ChainIdsOwn(m, cs) ==
    /\ \A a \in Ancestors(cs), b \in Ancestors(cs) : ID(a) = ID(b) => a = b
    /\ \A a \in Ancestors(cs) : ID(a) \in DOMAIN m => m[ID(a)] = a

\* C9 as amended: after registering a color space whose id was free, the id
\* of every space on its base chain can be looked up and yields that space,
\* provided no id of the chain is held by another space.
C9_ChainRegisteredOwnIds ==
    (RegisteredFresh /\ ChainIdsOwn(prevSpaces, lastArg)) =>
        \A a \in Ancestors(lastArg) :
            LookupIn(colorSpaces, <<"", ID(a)>>) = <<a, TRUE>>

\* U_Z was registered when neither its id nor its base's was: both are bound
\* now.
C9_Witness ==
    /\ RegisteredFresh /\ lastArg = "U_Z"
    /\ ChainIdsOwn(prevSpaces, lastArg)
    /\ "root2" \notin DOMAIN prevSpaces
    /\ "root2" \in DOMAIN colorSpaces

\* C10: registering a color space whose id is taken leaves the map as it
\* was, and no call rebinds or removes an id: every id keeps the space it was
\* first bound to.
C10_DuplicateIsNoOp ==
    /\ (lastOp = "Register" /\ ID(lastArg) \in DOMAIN prevSpaces) =>
           colorSpaces = prevSpaces
    /\ \A id \in DOMAIN prevSpaces :
           id \in DOMAIN colorSpaces /\ colorSpaces[id] = prevSpaces[id]
    /\ \A id \in DOMAIN InitRegistry :
           id \in DOMAIN colorSpaces /\ colorSpaces[id] = InitRegistry[id]

\* U_Srgb2, whose id "srgb" is taken by sRGB, was registered: "srgb" is still
\* sRGB and U_Srgb2's base "q" was not added.
C10_Witness ==
    /\ lastOp = "Register" /\ lastArg = "U_Srgb2"
    /\ colorSpaces["srgb"] = "SRGB"
    /\ "q" \notin DOMAIN colorSpaces

----------------------------------------------------------------------------
(* Claims about Step *)

\* The color the claim expects at index i: c1 and c2 interpolated in space
\* `in` at the fraction i/(num-1), converted to out.
ExpectedStepColor(i) ==
    LET t == <<i, stNum - 1>>
    IN  ColorConvert(Make(stIn,
                          lerp(stC1in.Values[1], stC2in.Values[1], t),
                          lerp(stC1in.Values[2], stC2in.Values[2], t),
                          lerp(stC1in.Values[3], stC2in.Values[3], t),
                          lerp(stC1in.Alpha, stC2in.Alpha, t)),
                     stOut)

\* C7: a Step that ran to its end yielded exactly num colors, the i-th (from
\* 0) being the interpolation at i/(num-1); for num >= 2 the first is c1 in
\* the output space and the last is c2 in the output space.
C7_StepAnchored ==
    (stPc = "done" /\ ~stStopped) =>
        /\ Len(stYielded) = stNum
        /\ stNum >= 2 =>
              /\ \A i \in 0..(stNum - 1) : stYielded[i + 1] = ExpectedStepColor(i)
              /\ stYielded[1] = ColorConvert(stC1, stOut)
              /\ stYielded[stNum] = ColorConvert(stC2, stOut)

----------------------------------------------------------------------------
(* Claims about GamutMapCSS *)

\* C4: a call of GamutMapCSS with a destination that has gamut limits (and
\* with one that has none) returns: once called, it eventually is done,
\* whatever the destination's gamut is along the chroma axis and whatever the
\* in-gamut and under-jnd tests answer.
C4_Terminates == (gPc # "idle") ~> (gPc = "done")

\* C5: the color GamutMapCSS returns is in the destination space, and where
\* the destination has gamut limits it is InGamut, on every return path.
C5_ResultInGamut ==
    gPc = "done" =>
        /\ gResult.Space = gTo
        /\ ~NoGamutLimits(gTo) => ColorInGamut(gResult)

\* C6: for a color whose plain conversion to the destination is InGamut,
\* GamutMapCSS returns exactly that plain conversion.
C6_InGamutUnchanged ==
    (gPc = "done" /\ ColorInGamut(gPlain)) => gResult = gPlain

\* The Oklch lightness of the color given to GamutMapCSS.
InputLightness == ColorConvert(gC, "Oklch").Values[1]

\* The destination has gamut limits and all its coordinates are bounded.
BoundedDest == \A i \in 1..3 : ~Coords(gTo)[i].Range.unbounded

\* C19: for a destination with a bounded coordinate range, an input of Oklch
\* lightness 1 or more gives Oklab (1, 0, 0) converted to the destination,
\* and one of lightness 0 or less gives Oklab (0, 0, 0) converted to it;
\* in a bounded RGB space the former is exactly (1, 1, 1).
C19_Endpoints ==
    (gPc = "done" /\ ~NoGamutLimits(gTo)) =>
        /\ InputLightness >= GamutOne =>
               /\ gRet = "white"
               /\ gResult.Space = gTo
               /\ gResult.Values = ConvertGray(GamutOne)
        /\ InputLightness <= 0 =>
               /\ gRet = "black"
               /\ gResult.Space = gTo
               /\ gResult.Values = ConvertGray(0)
        /\ (InputLightness >= GamutOne /\ BoundedDest) =>
               /\ gResult.Values = <<GamutOne, GamutOne, GamutOne>>
               /\ ConvertGrayUlps(GamutOne) = <<0, 0, 0>>

\* C19 without "exactly": which conversion is returned.  This holds.
C19_EndpointPaths ==
    (gPc = "done" /\ ~NoGamutLimits(gTo)) =>
        /\ InputLightness >= GamutOne =>
               (gRet = "white" /\ gResult.Values = ConvertGray(GamutOne))
        /\ InputLightness <= 0 =>
               (gRet = "black" /\ gResult.Values = ConvertGray(0))

\* C20: the color GamutMapCSS returns has the alpha of the color it was
\* given, on every return path.
C20_AlphaInert == gPc = "done" => gResult.Alpha = gC.Alpha

\* C20 for colors whose alpha is in [0, 1], as Make builds them.  This holds.
C20_AlphaInertInRange ==
    (gPc = "done" /\ gC.Alpha >= 0 /\ gC.Alpha <= One) => gResult.Alpha = gC.Alpha

\* C20 for Color.Convert: the color returned has the alpha of the receiver,
\* with and without the same-space return.  This holds of Spec.
C20_ConvertAlphaInert ==
    cpc \in {"ab", "abc", "done"} =>
        /\ ColorConvertRun(colIn, spB).color.Alpha = colIn.Alpha
        /\ ColorConvertRun(colIn, spA).color = colIn

\* The chroma the body of the search loop tests: the midpoint of [min, max].
Midpoint == (gMin + gMax) \div 2

\* The Oklch representation of the input of GamutMapCSS.
InputOklch == ColorConvert(gC, "Oklch")

\* Part of C21: at every test of the loop condition and in every run of the
\* body, 0 <= min <= max <= the chroma of the input.  This holds.
C21_Bounds ==
    gPc \in {"test", "body"} =>
        /\ 0 <= gMin
        /\ gMin <= gMax
        /\ gMax <= InputOklch.Values[2]

\* Part of C21: the candidate a run of the body tests has the lightness and
\* the hue of the input's Oklch representation, its alpha, and the chroma
\* (min+max)/2.  This holds.
C21_Candidate ==
    [][gPc = "body" =>
          /\ gCurrent'.Space = "Oklch"
          /\ gCurrent'.Alpha = gC.Alpha
          /\ gCurrent'.Values = <<InputOklch.Values[1], Midpoint,
                                  InputOklch.Values[3]>>]_vars

\* Part of C21: a run of the body that does not return moves exactly one of
\* min and max to the midpoint, and the interval is strictly smaller after
\* it.
C21_Shrinks ==
    [][(gPc = "body" /\ gPc' # "done") =>
          \/ gMin' = Midpoint /\ gMax' = gMax /\ gMin < Midpoint
          \/ gMax' = Midpoint /\ gMin' = gMin /\ Midpoint < gMax]_vars

\* C21: throughout the chroma search of GamutMapCSS, for an input with
\* non-negative Oklch chroma, every tested candidate keeps the lightness and
\* hue of the input and has chroma (min+max)/2, 0 <= min <= max <= the
\* chroma of the input holds at every loop test, and every iteration returns
\* or strictly shrinks [min, max] by moving exactly one bound to the midpoint.
C21_ChromaSearch == []C21_Bounds /\ C21_Candidate /\ C21_Shrinks

\* The iterations of the search that are reached: the body has run with each
\* bound moved, and at least twice.
C21_Reached ==
    /\ gPc = "test"
    /\ gMin > 0
    /\ gMax < InputOklch.Values[2]


----------------------------------------------------------------------------
(* Claims about the lock *)

\* The goroutines inside the locked part of RegisterColorSpace, and those
\* inside the locked part of LookupColorSpace.
Registering == {t \in Threads : tPc[t] \in {"register", "base", "unlock"}}

Looking == {t \in Threads : tPc[t] \in {"read", "runlock"}}

\* t's step inside registerColorSpace
RegisterStep(t) == TRegisterInsert(t) \/ TRegisterBase(t) \/ TUnlock(t)

\* C11: at most one goroutine is inside a registration, and then none is
\* inside a lookup; a registration is never blocked between taking the lock
\* and releasing it; and while a goroutine is inside a lookup the map is as
\* the last finished registration left it, so that no lookup sees a space
\* whose base chain is still being registered.
C11_LockDiscipline ==
    /\ Cardinality(Registering) <= 1
    /\ Registering # {} => Looking = {}
    /\ \A t \in Registering : mu.writer = t /\ ENABLED RegisterStep(t)
    /\ Looking # {} => colorSpaces = committed
    /\ \A t \in Threads :
           tPc[t] = "runlock" => tFound[t] = LookupIn(committed, tArg[t])

\* A registration has inserted "z" and not yet its base "root2" while a
\* lookup waits for the lock, and two lookups have overlapped before.
C11_Witness ==
    /\ tOverlap
    /\ \E t \in Threads :
           /\ tPc[t] = "base" /\ tCs[t] = "U_Z"
           /\ "z" \in DOMAIN colorSpaces /\ "root2" \notin DOMAIN colorSpaces
    /\ \E t \in Threads : tPc[t] = "rlock"


----------------------------------------------------------------------------
(* Claims about Init and about the panic of ColorSpace.Convert *)

\* The node without a base that the Base pointers lead to from n; Nil when
\* they lead to none.
RECURSIVE RootFrom(_, _)
RootFrom(n, fuel) ==
    IF fuel = 0 THEN Nil
    ELSE IF NodeBase(n) = Nil THEN n
    ELSE RootFrom(NodeBase(n), fuel - 1)

NodeRoot(n) == RootFrom(n, Cardinality(Nodes))

NoRepeat(s) == \A i, j \in 1..Len(s) : i # j => s[i] # s[j]

\* C12: Init fails fast with a fatal error when no root is reachable from
\* the node along the Base pointers: it does not return with a path
\* recorded, it does not go around a cycle of Base pointers (every node it
\* collects is a new one), and it does not run until memory is used up.
C12_InitFailsFast ==
    /\ iPc = "returned" => NodeRoot(iOrig) # Nil
    /\ iPc = "walk" => NoRepeat(iOut)
    /\ iPc # "exhausted"

\* The path of an initialised node n is its Base chain reversed.
IsBaseChainReversed(n) ==
    LET p == path[n]
    IN  /\ p[Len(p)] = n
        /\ NodeBase(p[1]) = Nil
        /\ \A i \in 2..Len(p) : NodeBase(p[i]) = p[i - 1]

\* The path of an initialised ancestor a of n is a strict prefix of n's.
IsStrictPrefix(a, n) ==
    /\ Len(path[a]) < Len(path[n])
    /\ path[a] = SubSeq(path[n], 1, Len(path[a]))

\* Part of C22, of the paths the nodes hold.
C22_Paths ==
    \A n \in Nodes : path[n] # <<>> =>
        /\ IsBaseChainReversed(n)
        /\ \A k \in 1..(Len(path[n]) - 1) :
               path[path[n][k]] # <<>> => IsStrictPrefix(path[n][k], n)

\* Part of C22, of a call of Init that returns on a node that holds a path.
C22_InitAgain ==
    [][(iPc = "walk" /\ iPc' = "returned" /\ path[iOrig] # <<>>) =>
          path'[iOrig] = path[iOrig]]_vars

\* C22: after Init on a node with a finite Base chain the node's path is its
\* Base chain reversed (the last element is the node, the Base of each
\* element is the element before it, the first element has no base), the
\* path of every initialised ancestor is a strict prefix of it, and calling
\* Init again yields the same path.
C22_PathIsBaseChain == []C22_Paths /\ C22_InitAgain

\* Init has returned on the program's space on top of sRGB, on a root and on
\* its child, and a second call of Init on the child has left its loop.
C22_Witness ==
    /\ path["U_Rgb"] = <<"XYZ_D65", "LinearSRGB", "SRGB", "U_Rgb">>
    /\ path["U_Root"] = <<"U_Root">>
    /\ path["U_Z"] = <<"U_Root", "U_Z">>
    /\ iPc = "walk" /\ iOrig = "U_Z" /\ iCs = Nil
    /\ iOut = <<"U_Z", "U_Root">>

\* C13: ColorSpace.Convert panics, having called no transfer function,
\* exactly when one of the two paths is empty or the paths differ in their
\* first element; for two initialised nodes with the same root it does not
\* panic.
C13_PanicIffNoCommonRoot ==
    cvA # Nil =>
        /\ cvRes.panic <=>
               \/ cvRes.ourPath = <<>>
               \/ cvRes.theirPath = <<>>
               \/ cvRes.ourPath[1] # cvRes.theirPath[1]
        /\ cvRes.panic => cvRes.calls = <<>>
        /\ ( /\ cvRes.ourPath # <<>>
             /\ cvRes.theirPath # <<>>
             /\ NodeRoot(cvA) = NodeRoot(cvB) ) => ~cvRes.panic

\* An initialised node of the second tree is converted to a node of the
\* package, and Convert panics.
C13_Witness ==
    /\ cvA = "U_Z" /\ cvB = "SRGB"
    /\ cvRes.ourPath = <<"U_Root", "U_Z">>
    /\ cvRes.panic


----------------------------------------------------------------------------
(* Claims about Parse and Color.String *)

\* What the parts say about the literal made of them.
WellFormed(p) ==
    /\ p.shape \in {"plain", "semicolon"}
    /\ \A t \in {p.x, p.y, p.z, p.a} : t.kind # "bad"

KnownSpace(p) == p.id.node # Nil

Overflowing(p) == \E t \in {p.x, p.y, p.z, p.a} : t.kind = "overflow"

Parsed == pPc \in {"parsed", "printed"}

\* C14: Parse returns ok = false for a string that is not of the grammar,
\* for an unknown space id, and for a literal with a number that overflows
\* strconv.ParseFloat.
C14_ParseFails ==
    (Parsed /\ (~WellFormed(pParts) \/ ~KnownSpace(pParts) \/ Overflowing(pParts)))
        => ~pRes.ok

\* C14, the first two cases alone: these hold.
C14_FailsOnGrammarAndSpace ==
    (Parsed /\ (~WellFormed(pParts) \/ ~KnownSpace(pParts))) => ~pRes.ok

\* The value a coordinate token stands for in a space with reference range
\* rng: a bare number itself, a percentage its place between the two ends.
TokenValue(t, rng) ==
    IF t.kind = "bare" THEN t.val
    ELSE rng[1] + ((rng[2] - rng[1]) * t.val) \div 100

Stated(t) == t.kind = "bare" \/ (t.kind = "pct" /\ t.val >= 0 /\ t.val <= 100)

\* C15: for a literal of the grammar with a registered space id (with or
\* without "--", or "xyz") Parse returns ok = true and a color of that
\* space; a bare coordinate is the number written, a percentage coordinate
\* lies that far between the ends of the reference range, an alpha
\* percentage lies that far between 0 and 1, and without alpha the alpha
\* is 1.
C15_ParseValues ==
    (Parsed /\ WellFormed(pParts) /\ KnownSpace(pParts)) =>
        /\ pRes.ok
        /\ pRes.color.Space = pParts.id.node
        /\ Stated(pParts.x) =>
               pRes.color.Values[1] = TokenValue(pParts.x, RefRange(pParts.id.node)[1])
        /\ Stated(pParts.y) =>
               pRes.color.Values[2] = TokenValue(pParts.y, RefRange(pParts.id.node)[2])
        /\ Stated(pParts.z) =>
               pRes.color.Values[3] = TokenValue(pParts.z, RefRange(pParts.id.node)[3])
        /\ pParts.a.kind = "pct" => pRes.color.Alpha = TokenValue(pParts.a, <<0, One>>)
        /\ pParts.a = NoTok => pRes.color.Alpha = One

\* color(--lab 0.4 30% 0.4) has been parsed: 30% of [-125, 125] is -50.
C15_Witness ==
    /\ Parsed
    /\ pIn = ColorOpen \o <<"-", "-", "l", "a", "b", " ", "0", ".", "4", " ", "3", "0",
                            "%", " ", "0", ".", "4", ")">>
    /\ pRes.ok
    /\ pRes.color = Make("Lab", (2 * One) \div 5, 0 - 50 * One, (2 * One) \div 5, One)

\* C16: Parse does not panic, whatever the string; a string of the grammar
\* has three coordinate groups that are not empty.
C16_ParseTotal ==
    /\ Parsed => ~pRes.panic
    /\ pPc # "off" =>
           LET g == FindStringSubmatch(pIn)
           IN  g.matched => (g.x # <<>> /\ g.y # <<>> /\ g.z # <<>>)

\* A literal with nothing between two of its spaces has been parsed.
C16_Witness ==
    /\ Parsed
    /\ pParts.shape = "plain" /\ pParts.x.chars = <<>> /\ KnownSpace(pParts)
    /\ ~pRes.ok

Occurs(c, s) == \E i \in 1..Len(s) : s[i] = c

\* C17: String gives "color(", the id, three numbers and ")", with " / " and
\* the alpha before the ")" exactly when the alpha is not 1, and with "--"
\* before the id exactly when the id is none of the eight ids of CSS;
\* color(srgb 1 0 0) parses to Make(SRGB, 1, 0, 0, 1), whose String is
\* color(srgb 1.000000 0.000000 0.000000).
C17_StringForm ==
    pPc = "printed" =>
        LET c      == pRes.color
            dashed == Sub(pStr, 7, 8) = <<"-", "-">>
            idAt   == IF dashed THEN 9 ELSE 7
            id     == Spell(ID(c.Space))
        IN  /\ Sub(pStr, 1, 6) = ColorOpen
            /\ pStr[Len(pStr)] = ")"
            /\ dashed <=> ID(c.Space) \notin {"srgb", "srgb-linear", "display-p3",
                                              "a98-rgb", "prophoto-rgb", "rec2020",
                                              "xyz-d50", "xyz-d65"}
            /\ Sub(pStr, idAt, idAt + Len(id)) = id \o <<" ">>
            /\ Occurs("/", pStr) <=> c.Alpha # One
            /\ c.Alpha # One =>
                   From(pStr, Len(pStr) - Len(FormatF(c.Alpha)) - 3)
                       = <<" ", "/", " ">> \o FormatF(c.Alpha) \o <<")">>
            /\ pIn = ColorOpen \o <<"s", "r", "g", "b", " ", "1", " ", "0", " ", "0", ")">> =>
                   /\ c = Make("SRGB", One, 0, 0, One)
                   /\ pStr = ColorOpen \o <<"s", "r", "g", "b", " ">>
                             \o <<"1", ".", "0", "0", "0", "0", "0", "0", " ">>
                             \o <<"0", ".", "0", "0", "0", "0", "0", "0", " ">>
                             \o <<"0", ".", "0", "0", "0", "0", "0", "0", ")">>

\* color(srgb 1 0 0) has been parsed and the color returned has been
\* rendered.
C17_Witness ==
    /\ pPc = "printed"
    /\ pIn = ColorOpen \o <<"s", "r", "g", "b", " ", "1", " ", "0", " ", "0", ")">>
    /\ pRes.ok


----------------------------------------------------------------------------
(* Claims about InGamut *)

\* min - 0.000075 <= v <= max + 0.000075 for the range [min, max]; nothing
\* is below -Inf - 0.000075 or above +Inf + 0.000075.
WithinRange(v, r) == r.unbounded \/ (r.lo - 3 <= v /\ v <= r.hi + 3)

NonAnglesWithin(cs, values) ==
    \A i \in 1..3 : Coords(cs)[i].IsAngle \/ WithinRange(values[i], Coords(cs)[i].Range)

\* C18: InGamut is true exactly when every coordinate that is not an angle
\* is within its range widened by 0.000075 at both ends, whatever the
\* angles are; InGamutOf(space) is InGamut of the color converted to space.
C18_InGamut ==
    /\ qOp \in {"ColorSpace.InGamut", "Color.InGamut"} =>
           (qRes <=> NonAnglesWithin(qC.Space, qC.Values))
    /\ qOp = "Color.InGamutOf" =>
           (qRes <=> NonAnglesWithin(qTo, ColorConvertRun(qC, qTo).color.Values))

\* A hue of 400 degrees, outside its range [0, 360], with the other two
\* coordinates in range: in gamut.
C18_Witness ==
    /\ qOp = "ColorSpace.InGamut"
    /\ qC.Space = "U_Hsv"
    /\ qC.Values[1] = 400 * GamutOne
    /\ qRes

====
